---- MODULE Spec2Model ----
(***************************************************************************)
(* Model of the MAGERIT risk engine: RiskService (calculateRisk,           *)
(* createOrUpdateRisk, recalculateAllRisks, deleteRisk, getRiskMatrix,     *)
(* getTopRisks) over the Asset, Threat, Vulnerability and Risk             *)
(* collections, with the requests interleaving at their await points.      *)
(*                                                                         *)
(* Numbers: the JavaScript doubles of the source are modelled as exact     *)
(* rationals [n, d] in lowest terms.  Time is counted in hours (the source *)
(* counts milliseconds); HoursPerDay plays the part of 1000*60*60*24.      *)
(***************************************************************************)
EXTENDS Integers, Sequences, FiniteSets, TLC

\* ------------------------------------------------------------------ bounds

\* Operations (requests started, and changes of the other collections and
\* of the clock) in one behaviour of Spec, where two request slots run
\* interleaved.
MaxOps == 3

\* Operations in one behaviour of SpecSeq, where one request runs at a time.
MaxSeqOps == 4

\* Operations of the specification that runs the calculator over its inputs.
MaxCalcOps == 3

\* Operations in one behaviour of SpecCreate.
MaxCreateOps == 3

\* CVE feed entries ingested in one behaviour of SpecCve.
MaxCveOps == 3

\* AssetService requests in one behaviour of SpecAsset.
MaxAssetOps == 4
MaxSafeguardOps == 3
MaxBatchOps == 3
MaxJobOps == 3
MaxCacheOps == 5

\* ------------------------------------------------------------- identifiers

AssetIds == {"a1", "a2"}
ThreatIds == {"t1"}
VulnIds == {"v1"}
Procs == {"p1", "p2"}

\* The absent optional vulnerability (undefined / null in the source).
NoVuln == "null"

\* Hours by which the clock advances in one step.
TickSteps == {360}

\* Values an operator may give to an asset's valorEconomico.
ValoresEconomicos == {100000, 200000}

\* ---------------------------------------------------------------- numbers

RECURSIVE Gcd(_, _)
Gcd(a, b) == IF b = 0 THEN a ELSE Gcd(b, a % b)

Abs(x) == IF x < 0 THEN 0 - x ELSE x

\* The rational n/d (d > 0) in lowest terms.
Rat(n, d) ==
    LET g == Gcd(Abs(n), d)
    IN [n |-> n \div g, d |-> d \div g]

RInt(k) == [n |-> k, d |-> 1]

\* Product, cancelling across before multiplying.
RMul(x, y) ==
    LET g1 == Gcd(Abs(x.n), y.d)
        g2 == Gcd(Abs(y.n), x.d)
    IN Rat((x.n \div g1) * (y.n \div g2), (x.d \div g2) * (y.d \div g1))

RDivInt(x, k) == RMul(x, Rat(1, k))

RSub(x, y) == Rat(x.n * y.d - y.n * x.d, x.d * y.d)

RAdd(x, y) == Rat(x.n * y.d + y.n * x.d, x.d * y.d)

RLeq(x, y) == x.n * y.d <= y.n * x.d

RGeqInt(x, k) == x.n >= k * x.d

RLeqInt(x, k) == x.n <= k * x.d

RMax(x, y) == IF RLeq(x, y) THEN y ELSE x

Max2(x, y) == IF x >= y THEN x ELSE y

\* ------------------------------------------------------ program constants

HoursPerDay == 24
MsPerHour == 3600000
MsPerSecond == 1000

RampDays == 30

PeakDays == 90

DecayDays == 365

EconomicScale == 100000

MaxProbabilidad == 10

MaxImpacto == 10

\* ---------------------------------------------------------- the calculator

\* Math.max of the five valuation dimensions.
ImpactoMaximo(valoracion) ==
    Max2(valoracion.confidencialidad,
         Max2(valoracion.integridad,
              Max2(valoracion.disponibilidad,
                   Max2(valoracion.autenticidad, valoracion.trazabilidad))))

\* Math.floor((now - fechaDescubrimiento) / one day).
DaysSinceDiscovery(fechaDescubrimiento, t) ==
    (t - fechaDescubrimiento) \div HoursPerDay

calculateTemporalFactor(fechaDescubrimiento, t) ==
    LET days == DaysSinceDiscovery(fechaDescubrimiento, t)
    IN IF days <= RampDays THEN RAdd(Rat(1, 2), Rat(days, 60))
       ELSE IF days <= PeakDays THEN RInt(1)
       ELSE RMax(Rat(4, 5), RSub(RInt(1), Rat(days - PeakDays, DecayDays)))

\* vuln is <<>> when no vulnerability document was found (or none was asked
\* for) and <<doc>> otherwise.
FactorVulnerabilidad(vuln) ==
    IF vuln # <<>> THEN Rat(vuln[1].facilidadExplotacion, 10) ELSE Rat(1, 2)

\* A calculation whose exposure uses the base probability.
CalculosRiesgoUnadjusted(asset, threat, vuln, t) ==
    LET probabilidadBase == threat.probabilidad
        impactoMaximo == ImpactoMaximo(asset.valoracion)
        factorTemporal == calculateTemporalFactor(threat.fechaDescubrimiento, t)
        impactoCalculado ==
            RMul(RInt(impactoMaximo), Rat(asset.valorEconomico, EconomicScale))
    IN [riesgoInherente |-> RInt(probabilidadBase * impactoMaximo),
        probabilidadAjustada |->
            RMul(RMul(RInt(probabilidadBase), FactorVulnerabilidad(vuln)),
                 factorTemporal),
        impactoCalculado |-> impactoCalculado,
        exposicion |-> RMul(RInt(probabilidadBase), impactoCalculado),
        factorTemporal |-> factorTemporal]

\* The body of calculateRisk once asset and threat are known to exist.
CalculosRiesgo(asset, threat, vuln, t) ==
    LET probabilidadBase == threat.probabilidad
        impactoMaximo == ImpactoMaximo(asset.valoracion)
        factorTemporal == calculateTemporalFactor(threat.fechaDescubrimiento, t)
        probabilidadAjustada ==
            RMul(RMul(RInt(probabilidadBase), FactorVulnerabilidad(vuln)),
                 factorTemporal)
        impactoCalculado ==
            RMul(RInt(impactoMaximo), Rat(asset.valorEconomico, EconomicScale))
    IN [riesgoInherente |-> RInt(probabilidadBase * impactoMaximo),
        probabilidadAjustada |-> probabilidadAjustada,
        impactoCalculado |-> impactoCalculado,
        exposicion |-> RMul(probabilidadAjustada, impactoCalculado),
        factorTemporal |-> factorTemporal]

\* Thresholds open at their lower end.
determineRiskLevelOpen(riesgoCalculado) ==
    IF ~RLeqInt(riesgoCalculado, 80) THEN "Critico"
    ELSE IF ~RLeqInt(riesgoCalculado, 60) THEN "Alto"
    ELSE IF ~RLeqInt(riesgoCalculado, 40) THEN "Medio"
    ELSE IF ~RLeqInt(riesgoCalculado, 20) THEN "Bajo"
    ELSE "Muy Bajo"

determineRiskLevel(riesgoCalculado) ==
    IF RGeqInt(riesgoCalculado, 80) THEN "Critico"
    ELSE IF RGeqInt(riesgoCalculado, 60) THEN "Alto"
    ELSE IF RGeqInt(riesgoCalculado, 40) THEN "Medio"
    ELSE IF RGeqInt(riesgoCalculado, 20) THEN "Bajo"
    ELSE "Muy Bajo"

\* A value at risk whose probability is not brought to the unit scale.
calculateVaRUnscaled(asset, probabilidad, impacto) ==
    RMul(RMul(RInt(asset.valorEconomico), probabilidad), RDivInt(impacto, 10))

calculateVaR(asset, probabilidad, impacto) ==
    RMul(RMul(RInt(asset.valorEconomico), RDivInt(probabilidad, 10)),
         RDivInt(impacto, 10))

\* ------------------------------------------------------------------- state

VARIABLES
    assets,     \* Asset collection: _id -> document, for the stored ids
    threats,    \* Threat collection
    vulns,      \* Vulnerability collection
    risks,      \* Risk collection: the sequence of documents, _id = index
    now,        \* the clock (new Date()), in hours
    nops,       \* operations that may still be started
    call,       \* per request slot: the running RiskService call and its locals
    deleted,    \* history: ids for which deleteRisk succeeded
    lastCOU,    \* history: the last finished direct createOrUpdateRisk call
    lastWrite,  \* history: per triple, the values of the last save issued
    safeguards, \* Safeguard collection: _id -> document, for the stored ids
    cveSyncJob, \* the CVESyncJob singleton: isRunning, lastSyncDate
    cache,      \* InMemoryCache.cache: key -> entry {data, timestamp, ttl}
    msec        \* Date.now(): the milliseconds past the hour now

vars ==
    <<assets, threats, vulns, risks, now, nops, call, deleted, lastCOU,
      lastWrite, safeguards, cveSyncJob, cache, msec>>

Triples == AssetIds \X ThreatIds \X (VulnIds \cup {NoVuln})

\* The triples the requests of the model ask for.
Asked == {<<"a1", "t1", NoVuln>>, <<"a1", "t1", "v1">>, <<"a2", "t1", NoVuln>>}

TripleOf(doc) == <<doc.activo, doc.amenaza, doc.vulnerabilidad>>

Ids(store) == 1..Len(store)

\* ------------------------------------------------------ the Risk collection

\* The document built by createOrUpdateRisk, for an insert or as the values
\* assigned to an existing document.
RiskDoc(a, t, v, calculos, asset, fecha) ==
    [activo |-> a,
     amenaza |-> t,
     vulnerabilidad |-> v,
     calculos |-> calculos,
     valorRiesgo |->
        calculateVaR(asset, calculos.probabilidadAjustada,
                     calculos.impactoCalculado),
     nivelRiesgo |-> determineRiskLevel(calculos.exposicion),
     probabilidad |-> calculos.probabilidadAjustada,
     impacto |-> calculos.impactoCalculado,
     fechaCalculo |-> fecha,
     vigente |-> TRUE]

\* riskSchema validators run by save(): valorRiesgo min 0, probabilidad and
\* impacto min 0 max 10.
ValidRisk(doc) ==
    /\ RGeqInt(doc.valorRiesgo, 0)
    /\ RGeqInt(doc.probabilidad, 0) /\ RLeqInt(doc.probabilidad, MaxProbabilidad)
    /\ RGeqInt(doc.impacto, 0) /\ RLeqInt(doc.impacto, MaxImpacto)

\* A unique index that skips documents without a vulnerability.
DuplicateKeySparse(store, doc) ==
    /\ doc.vulnerabilidad # NoVuln
    /\ \E i \in Ids(store) : TripleOf(store[i]) = TripleOf(doc)

\* No unique index at all.
DuplicateKeyNone(store, doc) == FALSE

\* The unique index {activo, amenaza, vulnerabilidad}: an insert of doc is
\* rejected (E11000) when a stored document has the same key; a null
\* vulnerabilidad is a key value like any other.
DuplicateKey(store, doc) ==
    \E i \in Ids(store) : TripleOf(store[i]) = TripleOf(doc)

\* Risk.findOne whose filter never matches a document without a
\* vulnerability (vulnerabilidad: undefined instead of null).
FindOneNoNull(store, a, t, v) ==
    LET hits == {i \in Ids(store) :
                    TripleOf(store[i]) = <<a, t, v>> /\ v # NoVuln}
    IN IF hits = {} THEN <<>>
       ELSE LET i == CHOOSE j \in hits : \A h \in hits : j <= h
            IN <<[id |-> i, doc |-> store[i]]>>

\* Risk.findOne({activo, amenaza, vulnerabilidad: v || null}): the first
\* stored document of the triple, whatever its vigente, or none.
FindOneRisk(store, a, t, v) ==
    LET hits == {i \in Ids(store) : TripleOf(store[i]) = <<a, t, v>>}
    IN IF hits = {} THEN <<>>
       ELSE LET i == CHOOSE j \in hits : \A h \in hits : j <= h
            IN <<[id |-> i, doc |-> store[i]]>>

\* save() of a loaded document writes only the paths whose assigned value
\* differs from the loaded one (mongoose's change tracking); the other paths
\* keep what the collection holds now.
SavedFields == {"calculos", "valorRiesgo", "nivelRiesgo", "probabilidad",
                "impacto", "fechaCalculo", "vigente"}

SaveExisting(stored, loaded, assigned) ==
    [f \in DOMAIN stored |->
        IF f \in SavedFields /\ assigned[f] # loaded[f]
        THEN assigned[f] ELSE stored[f]]

\* find({vigente: true})
Vigentes(store) == {i \in Ids(store) : store[i].vigente}

\* sort({valorRiesgo: -1}) of the ids in S; equal values stay in _id order.
RECURSIVE SortDesc(_, _)
SortDesc(store, S) ==
    IF S = {} THEN <<>>
    ELSE LET top == CHOOSE i \in S :
                        \A j \in S :
                            \/ ~RLeq(store[i].valorRiesgo, store[j].valorRiesgo)
                            \/ (store[i].valorRiesgo = store[j].valorRiesgo
                                /\ i <= j)
         IN <<top>> \o SortDesc(store, S \ {top})

LimitNone(seq, n) == seq

\* limit(n): 0 is no limit, a negative n counts as its absolute value.
Limit(seq, n) ==
    IF n = 0 \/ Abs(n) >= Len(seq) THEN seq ELSE SubSeq(seq, 1, Abs(n))

SelectLevelUnfiltered(store, seq, nivel) == seq

\* risks.filter(r => r.nivelRiesgo === nivel)
SelectLevel(store, seq, nivel) ==
    SelectSeq(seq, LAMBDA i : store[i].nivelRiesgo = nivel)

EmptyMatrix ==
    [criticos |-> <<>>, altos |-> <<>>, medios |-> <<>>, bajos |-> <<>>,
     muyBajos |-> <<>>, totalRiesgos |-> 0]

RiskMatrix(store) ==
    LET sorted == SortDesc(store, Vigentes(store))
    IN [criticos |-> SelectLevel(store, sorted, "Critico"),
        altos |-> SelectLevel(store, sorted, "Alto"),
        medios |-> SelectLevel(store, sorted, "Medio"),
        bajos |-> SelectLevel(store, sorted, "Bajo"),
        muyBajos |-> SelectLevel(store, sorted, "Muy Bajo"),
        totalRiesgos |-> Len(sorted)]

TopRisks(store, limit) == Limit(SortDesc(store, Vigentes(store)), limit)

\* ------------------------------------------------------------ call frames

\* A request slot with no call in it.  The g_ fields are history: what the
\* call saw, kept for stating the properties.
IdleCall ==
    [op |-> "none", pc |-> "idle",
     a |-> "null", t |-> "null", v |-> NoVuln, arg |-> 0,
     calc |-> <<>>, asset |-> <<>>, existing |-> <<>>,
     list |-> <<>>, k |-> 0, processed |-> 0, errors |-> 0,
     outcome |-> "none", ret |-> <<>>, matrix |-> EmptyMatrix, top |-> <<>>,
     g_len |-> 0, g_in |-> <<>>, g_prev |-> <<>>, g_soft |-> FALSE,
     g_env |-> <<>>, g_clean |-> TRUE, g_missing |-> FALSE,
     prob |-> <<>>, imp |-> <<>>, g_had |-> <<>>,
     cve |-> <<>>, found |-> <<>>, g_count |-> 0,
     dependents |-> {}, sid |-> "null", sg |-> <<>>,
     results |-> <<>>, endDate |-> 0, force |-> FALSE,
     req |-> <<>>, hit |-> FALSE, g_entry |-> <<>>, g_at |-> 0]

Free(p) == call[p].pc \in {"idle", "done"}

CanStart(p) == Free(p) /\ nops > 0

Env == <<assets, threats, vulns, now \div HoursPerDay>>

\* The locals of one createOrUpdateRisk invocation, cleared.
ClearLocals(c) ==
    [c EXCEPT !.calc = <<>>, !.asset = <<>>, !.existing = <<>>]

\* The for loop of recalculateAllRisks moves to its next record, or the
\* batch returns {processed, errors}.
NextIter(c) ==
    LET d == ClearLocals(c)
    IN IF c.k + 1 > Len(c.list)
       THEN [d EXCEPT !.k = c.k + 1, !.pc = "done", !.outcome = "ok"]
       ELSE [d EXCEPT !.k = c.k + 1, !.pc = "iter"]

\* History of the batch: no record whose asset was found by populate has
\* failed so far.
Clean(c) == c.g_clean /\ c.list[c.k].activo = "null"

\* A loop whose catch counts the failed record as processed.
ThrowCountsProcessed(c, err) ==
    IF c.op = "recalculateAllRisks"
    THEN NextIter([c EXCEPT !.processed = @ + 1, !.g_clean = Clean(c)])
    ELSE [c EXCEPT !.pc = "done", !.outcome = err]

\* createOrUpdateRisk (or calculateRisk) throws err: a direct call ends
\* with the error; inside the batch the catch counts it and goes on.
Throw(c, err) ==
    IF c.op = "recalculateAllRisks"
    THEN NextIter([c EXCEPT !.errors = @ + 1, !.g_clean = Clean(c)])
    ELSE [c EXCEPT !.pc = "done", !.outcome = err]

\* createOrUpdateRisk returns doc.
Return(c, doc) ==
    IF c.op = "recalculateAllRisks"
    THEN NextIter([c EXCEPT !.processed = @ + 1])
    ELSE [c EXCEPT !.pc = "done", !.outcome = "ok", !.ret = <<doc>>]

\* Vulnerability.findById(v), or null when no id was given.
FindVuln(v) == IF v # NoVuln /\ v \in DOMAIN vulns THEN <<vulns[v]>> ELSE <<>>

\* calculateRisk that takes a missing threat for one of probability 0.
CalculateRiskNoThreatCheck(c) ==
    IF c.a \notin DOMAIN assets
    THEN Throw(c, "NotFound")
    ELSE LET threat == IF c.t \in DOMAIN threats THEN threats[c.t]
                       ELSE [probabilidad |-> 0, fechaDescubrimiento |-> 0]
         IN [c EXCEPT
               !.calc = <<CalculosRiesgo(assets[c.a], threat, FindVuln(c.v), now)>>,
               !.g_in = <<[asset |-> assets[c.a], threat |-> threat,
                           vuln |-> FindVuln(c.v),
                           days |-> DaysSinceDiscovery(
                                        threat.fechaDescubrimiento, now)]>>,
               !.pc = "findAsset"]

\* calculateRisk(c.a, c.t, c.v) as the first step of createOrUpdateRisk: the
\* three findById, the 404 checks and the calculation.
CalculateRisk(c) ==
    IF c.a \notin DOMAIN assets \/ c.t \notin DOMAIN threats
    THEN Throw(c, "NotFound")
    ELSE [c EXCEPT
            !.calc = <<CalculosRiesgo(assets[c.a], threats[c.t], FindVuln(c.v),
                                      now)>>,
            !.g_in = <<[asset |-> assets[c.a], threat |-> threats[c.t],
                        vuln |-> FindVuln(c.v),
                        days |-> DaysSinceDiscovery(
                                     threats[c.t].fechaDescubrimiento, now)]>>,
            !.pc = "findAsset"]

\* ---------------------------------------------------------------- actions

\* A calculateRisk that stores what it calculated.
CalculateRiskCallSaving(p, a, t, v) ==
    /\ CanStart(p)
    /\ LET c == [IdleCall EXCEPT !.op = "calculateRisk", !.a = a, !.t = t,
                                 !.v = v,
                                 !.g_missing = \/ a \notin DOMAIN assets
                                               \/ t \notin DOMAIN threats]
           d == CalculateRisk(c)
       IN /\ call' = [call EXCEPT ![p] =
                        IF d.pc = "done" THEN d
                        ELSE [d EXCEPT !.pc = "done", !.outcome = "ok"]]
          /\ risks' = IF d.pc = "done" THEN risks
                      ELSE Append(risks, RiskDoc(a, t, v, d.calc[1],
                                                 assets[a], now))
    /\ nops' = nops - 1
    /\ UNCHANGED <<cache, msec, cveSyncJob, safeguards, assets, threats, vulns, now, deleted, lastCOU, lastWrite>>

\* calculateRisk called on its own (POST /risks/calculate without saving).
CalculateRiskCall(p, a, t, v) ==
    /\ CanStart(p)
    /\ LET c == [IdleCall EXCEPT !.op = "calculateRisk", !.a = a, !.t = t,
                                 !.v = v,
                                 !.g_missing = \/ a \notin DOMAIN assets
                                               \/ t \notin DOMAIN threats]
           d == CalculateRisk(c)
       IN call' = [call EXCEPT ![p] =
                     IF d.pc = "done" THEN d
                     ELSE [d EXCEPT !.pc = "done", !.outcome = "ok"]]
    /\ nops' = nops - 1
    /\ UNCHANGED <<cache, msec, cveSyncJob, safeguards, assets, threats, vulns, risks, now, deleted, lastCOU,
                   lastWrite>>

\* The history of a finished direct createOrUpdateRisk.
Finished(c) ==
    IF c.op = "createOrUpdateRisk" /\ c.pc = "done"
    THEN <<[a |-> c.a, t |-> c.t, v |-> c.v, outcome |-> c.outcome,
            in |-> c.g_in, asset |-> c.asset, ret |-> c.ret]>>
    ELSE lastCOU

\* createOrUpdateRisk(a, t, v), up to the end of its calculateRisk.
COU_Calculate(p, a, t, v) ==
    /\ CanStart(p)
    /\ LET c == [IdleCall EXCEPT !.op = "createOrUpdateRisk", !.a = a, !.t = t,
                                 !.v = v, !.g_prev = lastCOU,
                                 !.g_missing = \/ a \notin DOMAIN assets
                                               \/ t \notin DOMAIN threats]
           d == CalculateRisk(c)
       IN /\ call' = [call EXCEPT ![p] = d]
          /\ lastCOU' = Finished(d)
    /\ nops' = nops - 1
    /\ UNCHANGED <<cache, msec, cveSyncJob, safeguards, assets, threats, vulns, risks, now, deleted, lastWrite>>

\* const asset = await Asset.findById(assetId); 404 when it is gone.
COU_FindAsset(p) ==
    /\ call[p].pc = "findAsset"
    /\ LET c == [call[p] EXCEPT
                    !.g_missing = /\ call[p].op = "createOrUpdateRisk"
                                  /\ call[p].a \notin DOMAIN assets]
           d == IF c.a \notin DOMAIN assets THEN Throw(c, "NotFound")
                ELSE [c EXCEPT !.asset = <<assets[c.a]>>, !.pc = "findOne"]
       IN /\ call' = [call EXCEPT ![p] = d]
          /\ lastCOU' = Finished(d)
    /\ UNCHANGED <<cache, msec, cveSyncJob, safeguards, assets, threats, vulns, risks, now, nops, deleted,
                   lastWrite>>

\* const existingRisk = await Risk.findOne({...}).
COU_FindOne(p) ==
    /\ call[p].pc = "findOne"
    /\ LET c == call[p]
           ofTriple == {i \in Ids(risks) : TripleOf(risks[i]) = <<c.a, c.t, c.v>>}
       IN call' = [call EXCEPT ![p] =
                     [c EXCEPT !.existing = FindOneRisk(risks, c.a, c.t, c.v),
                               !.g_soft = /\ ofTriple # {}
                                          /\ \A i \in ofTriple : ~risks[i].vigente,
                               !.g_len = Len(risks),
                               !.pc = "save"]]
    /\ UNCHANGED <<cache, msec, cveSyncJob, safeguards, assets, threats, vulns, risks, now, nops, deleted,
                   lastCOU, lastWrite>>

\* The values of a save, as the history keeps them.
Written(doc) ==
    <<[calculos |-> doc.calculos, valorRiesgo |-> doc.valorRiesgo,
       nivelRiesgo |-> doc.nivelRiesgo]>>

\* await existingRisk.save() or await newRisk.save(): the validators, then
\* the update of the loaded document or the insert under the unique index.
COU_Save(p) ==
    /\ call[p].pc = "save"
    /\ LET c == call[p]
           doc == RiskDoc(c.a, c.t, c.v, c.calc[1], c.asset[1], now)
           tr == <<c.a, c.t, c.v>>
       IN IF ~ValidRisk(doc)
          THEN /\ call' = [call EXCEPT ![p] = Throw(c, "ValidationError")]
               /\ lastCOU' = Finished(Throw(c, "ValidationError"))
               /\ UNCHANGED <<risks, lastWrite>>
          ELSE IF c.existing # <<>>
          THEN LET id == c.existing[1].id
                   new == SaveExisting(risks[id], c.existing[1].doc, doc)
               IN /\ risks' = [risks EXCEPT ![id] = new]
                  /\ call' = [call EXCEPT ![p] = Return(c, [id |-> id, doc |-> doc])]
                  /\ lastCOU' = Finished(Return(c, [id |-> id, doc |-> doc]))
                  /\ lastWrite' = [lastWrite EXCEPT ![tr] = Written(doc)]
          ELSE IF DuplicateKey(risks, doc)
          THEN /\ call' = [call EXCEPT ![p] = Throw(c, "DuplicateKey")]
               /\ lastCOU' = Finished(Throw(c, "DuplicateKey"))
               /\ lastWrite' = [lastWrite EXCEPT ![tr] = Written(doc)]
               /\ UNCHANGED risks
          ELSE /\ risks' = Append(risks, doc)
               /\ call' = [call EXCEPT ![p] =
                             Return(c, [id |-> Len(risks) + 1, doc |-> doc])]
               /\ lastCOU' = Finished(Return(c, [id |-> Len(risks) + 1,
                                                 doc |-> doc]))
               /\ lastWrite' = [lastWrite EXCEPT ![tr] = Written(doc)]
    /\ UNCHANGED <<cache, msec, cveSyncJob, safeguards, assets, threats, vulns, now, nops, deleted>>

RECURSIVE IdSeq(_)
IdSeq(S) ==
    IF S = {} THEN <<>>
    ELSE LET m == CHOOSE i \in S : \A j \in S : i <= j
         IN <<m>> \o IdSeq(S \ {m})

\* What recalculateAllRisks keeps of a found risk: its _id and its three
\* references.
Entry(store, i) ==
    [id |-> i, activo |-> store[i].activo, amenaza |-> store[i].amenaza,
     vulnerabilidad |-> store[i].vulnerabilidad]

\* populate(): a reference whose document is gone becomes null.
Populated(e) ==
    [e EXCEPT !.activo = IF @ \in DOMAIN assets THEN @ ELSE "null",
              !.amenaza = IF @ \in DOMAIN threats THEN @ ELSE "null",
              !.vulnerabilidad = IF @ \in DOMAIN vulns THEN @ ELSE NoVuln]

\* recalculateAllRisks: const risks = await Risk.find({vigente: true}).
Recalc_Find(p) ==
    /\ CanStart(p)
    /\ LET ids == IdSeq(Vigentes(risks))
       IN call' = [call EXCEPT ![p] =
                     [IdleCall EXCEPT !.op = "recalculateAllRisks",
                                      !.list = [n \in 1..Len(ids) |->
                                                   Entry(risks, ids[n])],
                                      !.g_env = <<Env>>,
                                      !.pc = "populate"]]
    /\ nops' = nops - 1
    /\ UNCHANGED <<cache, msec, cveSyncJob, safeguards, assets, threats, vulns, risks, now, deleted, lastCOU,
                   lastWrite>>

\* .populate('activo amenaza vulnerabilidad'), then the loop starts.
Recalc_Populate(p) ==
    /\ call[p].pc = "populate"
    /\ LET c == call[p]
       IN call' = [call EXCEPT ![p] =
                     NextIter([c EXCEPT !.list = [n \in 1..Len(c.list) |->
                                                     Populated(c.list[n])]])]
    /\ UNCHANGED <<cache, msec, cveSyncJob, safeguards, assets, threats, vulns, risks, now, nops, deleted,
                   lastCOU, lastWrite>>

\* One turn of the loop up to the end of calculateRisk: risk.activo._id of a
\* null reference throws (a TypeError the catch counts); otherwise
\* createOrUpdateRisk is entered with the ids of the populated references.
Recalc_Iter(p) ==
    /\ call[p].pc = "iter"
    /\ LET c == call[p]
           e == c.list[c.k]
       IN call' = [call EXCEPT ![p] =
                     IF e.activo = "null" \/ e.amenaza = "null"
                     THEN Throw(c, "TypeError")
                     ELSE CalculateRisk([c EXCEPT !.a = e.activo,
                                                  !.t = e.amenaza,
                                                  !.v = e.vulnerabilidad])]
    /\ UNCHANGED <<cache, msec, cveSyncJob, safeguards, assets, threats, vulns, risks, now, nops, deleted,
                   lastCOU, lastWrite>>

\* deleteRisk(id): const risk = await Risk.findById(id); 404 when absent.
DeleteRisk_Find(p, id) ==
    /\ CanStart(p)
    /\ LET c == [IdleCall EXCEPT !.op = "deleteRisk", !.arg = id]
       IN call' = [call EXCEPT ![p] =
                     IF id \in Ids(risks)
                     THEN [c EXCEPT !.existing = <<[id |-> id, doc |-> risks[id]]>>,
                                    !.pc = "delSave"]
                     ELSE [c EXCEPT !.pc = "done", !.outcome = "NotFound"]]
    /\ nops' = nops - 1
    /\ UNCHANGED <<cache, msec, cveSyncJob, safeguards, assets, threats, vulns, risks, now, deleted, lastCOU,
                   lastWrite>>

\* risk.vigente = false; await risk.save().
DeleteRisk_Save(p) ==
    /\ call[p].pc = "delSave"
    /\ LET c == call[p]
           id == c.existing[1].id
           loaded == c.existing[1].doc
       IN /\ risks' = [risks EXCEPT ![id] =
                         SaveExisting(@, loaded, [loaded EXCEPT !.vigente = FALSE])]
          /\ call' = [call EXCEPT ![p] = [c EXCEPT !.pc = "done", !.outcome = "ok"]]
          /\ deleted' = deleted \cup {id}
    /\ UNCHANGED <<cache, msec, cveSyncJob, safeguards, assets, threats, vulns, now, nops, lastCOU, lastWrite>>

\* getRiskMatrix(): one query, grouped by level.
GetRiskMatrix(p) ==
    /\ CanStart(p)
    /\ call' = [call EXCEPT ![p] =
                  [IdleCall EXCEPT !.op = "getRiskMatrix", !.pc = "done",
                                   !.outcome = "ok",
                                   !.matrix = RiskMatrix(risks)]]
    /\ nops' = nops - 1
    /\ UNCHANGED <<cache, msec, cveSyncJob, safeguards, assets, threats, vulns, risks, now, deleted, lastCOU,
                   lastWrite>>

\* getTopRisks(limit).
GetTopRisks(p, limit) ==
    /\ CanStart(p)
    /\ call' = [call EXCEPT ![p] =
                  [IdleCall EXCEPT !.op = "getTopRisks", !.pc = "done",
                                   !.outcome = "ok", !.arg = limit,
                                   !.top = TopRisks(risks, limit)]]
    /\ nops' = nops - 1
    /\ UNCHANGED <<cache, msec, cveSyncJob, safeguards, assets, threats, vulns, risks, now, deleted, lastCOU,
                   lastWrite>>

\* An optional number of a request body is <<>> when absent and <<n>> when
\* given; !x holds for the absent one and for 0.
Falsy(x) == x = <<>> \/ x[1] = 0

\* The document built by createRisk from the probability and the impact it
\* was given.
ManualRiskDoc(a, t, v, calculos, probabilidad, impacto, fecha) ==
    [activo |-> a,
     amenaza |-> t,
     vulnerabilidad |-> v,
     calculos |-> calculos,
     valorRiesgo |-> RInt(probabilidad * impacto),
     nivelRiesgo |-> determineRiskLevel(RInt(probabilidad * impacto)),
     probabilidad |-> RInt(probabilidad),
     impacto |-> RInt(impacto),
     fechaCalculo |-> fecha,
     vigente |-> TRUE]

\* createRisk: if (!probabilidad || !impacto) the call goes on as
\* createOrUpdateRisk, otherwise it builds the document itself.
CreateRiskPath(c) ==
    IF Falsy(c.prob) \/ Falsy(c.imp) THEN "findAsset" ELSE "createSave"

\* createRisk(riskData), up to the end of the calculateRisk that both of its
\* paths start with.
CreateRisk_Calculate(p, a, t, v, probabilidad, impacto) ==
    /\ CanStart(p)
    /\ LET c == [IdleCall EXCEPT !.op = "createRisk", !.a = a, !.t = t,
                                 !.v = v, !.prob = probabilidad,
                                 !.imp = impacto,
                                 !.g_len = Len(risks),
                                 !.g_had = FindOneRisk(risks, a, t, v),
                                 !.g_missing = \/ a \notin DOMAIN assets
                                               \/ t \notin DOMAIN threats]
           d == CalculateRisk(c)
       IN call' = [call EXCEPT ![p] =
                     IF d.pc = "done" THEN d
                     ELSE [d EXCEPT !.pc = CreateRiskPath(c)]]
    /\ nops' = nops - 1
    /\ UNCHANGED <<cache, msec, cveSyncJob, safeguards, assets, threats, vulns, risks, now, deleted, lastCOU,
                   lastWrite>>

\* createRisk: await newRisk.save() (validators, then the insert under the
\* unique index) and the populate of the saved document.
CreateRisk_Save(p) ==
    /\ call[p].pc = "createSave"
    /\ LET c == call[p]
           doc == ManualRiskDoc(c.a, c.t, c.v, c.calc[1], c.prob[1], c.imp[1],
                                now)
       IN IF ~ValidRisk(doc)
          THEN /\ call' = [call EXCEPT ![p] = Throw(c, "ValidationError")]
               /\ UNCHANGED risks
          ELSE IF DuplicateKey(risks, doc)
          THEN /\ call' = [call EXCEPT ![p] = Throw(c, "DuplicateKey")]
               /\ UNCHANGED risks
          ELSE /\ risks' = Append(risks, doc)
               /\ call' = [call EXCEPT ![p] =
                             Return(c, [id |-> Len(risks) + 1, doc |-> doc])]
    /\ UNCHANGED <<cache, msec, cveSyncJob, safeguards, assets, threats, vulns, now, nops, deleted, lastCOU,
                   lastWrite>>

\* ------------------------------------------------ AssetService requests

\* An Asset.find that looks at the dependencias of the asset itself.
DependentAssetsOwn(store, id) ==
    IF id \in DOMAIN store THEN store[id].dependencias \cap DOMAIN store
    ELSE {}

\* Asset.find({dependencias: id}): the stored assets that list id.
DependentAssets(store, id) ==
    {b \in DOMAIN store : id \in store[b].dependencias}

\* deleteAsset(id): the lookup of the dependent assets, and the 400 when
\* there are some.
DeleteAsset_Find(p, id) ==
    /\ CanStart(p)
    /\ LET c == [IdleCall EXCEPT !.op = "deleteAsset", !.a = id,
                                 !.dependents = DependentAssets(assets, id)]
       IN call' = [call EXCEPT ![p] =
                     IF c.dependents # {} THEN Throw(c, "BadRequest")
                     ELSE [c EXCEPT !.pc = "assetDelete"]]
    /\ nops' = nops - 1
    /\ UNCHANGED <<cache, msec, cveSyncJob, safeguards, assets, threats, vulns, risks, now, deleted, lastCOU,
                   lastWrite>>

\* deleteAsset: Asset.findByIdAndDelete(id), 404 when nothing was deleted.
DeleteAsset_Delete(p) ==
    /\ call[p].pc = "assetDelete"
    /\ LET c == call[p]
       IN IF c.a \notin DOMAIN assets
          THEN /\ call' = [call EXCEPT ![p] = Throw(c, "NotFound")]
               /\ UNCHANGED assets
          ELSE /\ assets' = [b \in DOMAIN assets \ {c.a} |-> assets[b]]
               /\ call' = [call EXCEPT ![p] =
                             [c EXCEPT !.pc = "done", !.outcome = "ok"]]
    /\ UNCHANGED <<cache, msec, cveSyncJob, safeguards, threats, vulns, risks, now, nops, deleted, lastCOU,
                   lastWrite>>

\* updateAsset(id, {dependencias}): Asset.findByIdAndUpdate, 404 when the
\* asset is not stored.  No codigo is given, so the codigo lookup is skipped.
UpdateAsset_Dependencias(p, id, dependencias) ==
    /\ CanStart(p)
    /\ LET c == [IdleCall EXCEPT !.op = "updateAsset", !.a = id]
       IN IF id \notin DOMAIN assets
          THEN /\ call' = [call EXCEPT ![p] = Throw(c, "NotFound")]
               /\ UNCHANGED assets
          ELSE /\ assets' = [assets EXCEPT ![id].dependencias = dependencias]
               /\ call' = [call EXCEPT ![p] =
                             [c EXCEPT !.pc = "done", !.outcome = "ok"]]
    /\ nops' = nops - 1
    /\ UNCHANGED <<cache, msec, cveSyncJob, safeguards, threats, vulns, risks, now, deleted, lastCOU, lastWrite>>

\* ------------------------------------------------------ CVE ingestion

\* CVSS scores carry one decimal and are counted in tenths: 9.8 is 98.
CveIds == {"CVE-1", "CVE-2"}

\* _id values for the threats the ingestion creates.
CveThreatIds == {"t2", "t3", "t4"}

Severities == {"LOW", "MEDIUM", "HIGH", "CRITICAL"}

\* String.prototype.toLowerCase on the severities.
ToLowerCase(str) ==
    CASE str = "LOW" -> "low"
      [] str = "MEDIUM" -> "medium"
      [] str = "HIGH" -> "high"
      [] str = "CRITICAL" -> "critical"
      [] OTHER -> str

\* transformNVDToCVEData: the v3.1 metric when there is one, else the v2
\* metric with its severity derived from the score, else score 0 and MEDIUM.
transformNVDToCVEData(nvd) ==
    LET scored ==
            IF nvd.cvssMetricV31 # <<>>
            THEN [cvssScore |-> nvd.cvssMetricV31[1].baseScore,
                  severity |-> ToLowerCase(nvd.cvssMetricV31[1].baseSeverity)]
            ELSE IF nvd.cvssMetricV2 # <<>>
            THEN [cvssScore |-> nvd.cvssMetricV2[1].baseScore,
                  severity |->
                      IF nvd.cvssMetricV2[1].baseScore >= 70 THEN "HIGH"
                      ELSE IF nvd.cvssMetricV2[1].baseScore >= 40
                      THEN "MEDIUM" ELSE "LOW"]
            ELSE [cvssScore |-> 0, severity |-> "MEDIUM"]
    IN [cveId |-> nvd.id,
        cvssScore |-> scored.cvssScore,
        severity |-> scored.severity,
        publishedDate |-> nvd.published,
        lastModifiedDate |-> nvd.lastModified]

calculateProbabilityFromCVSS(cvssScore, severity) ==
    IF severity = "CRITICAL" \/ cvssScore >= 90 THEN 9
    ELSE IF severity = "HIGH" \/ cvssScore >= 70 THEN 7
    ELSE IF severity = "MEDIUM" \/ cvssScore >= 40 THEN 5
    ELSE IF severity = "LOW" \/ cvssScore >= 1 THEN 3
    ELSE 1

\* cveDataSchema and threatSchema validators run by save(): cvssScore min 0
\* max 10, severity in the enum, probabilidad min 0 max 10.
ValidThreat(doc) ==
    /\ doc.probabilidad >= 0 /\ doc.probabilidad <= MaxProbabilidad
    /\ doc.cveData # <<>> =>
          /\ doc.cveData[1].cvssScore >= 0
          /\ doc.cveData[1].cvssScore <= 100
          /\ doc.cveData[1].severity \in Severities

\* The unique index on codigo.
DuplicateCodigo(store, doc) ==
    \E t \in DOMAIN store : store[t].codigo = doc.codigo

\* Threat.findOne({'cveData.cveId': id}): <<>> or the id and the document.
FindThreatByCve(store, id) ==
    LET hits == {t \in DOMAIN store :
                    store[t].cveData # <<>> /\ store[t].cveData[1].cveId = id}
    IN IF hits = {} THEN <<>>
       ELSE LET t == CHOOSE u \in hits : TRUE
            IN <<[id |-> t, doc |-> store[t]]>>

\* processCVE(nvd): the transformation and the lookup of the threat.
ProcessCVE_Find(p, nvd) ==
    /\ CanStart(p)
    /\ LET cveData == transformNVDToCVEData(nvd)
       IN call' = [call EXCEPT ![p] =
                     [IdleCall EXCEPT
                        !.op = "processCVE", !.pc = "cveSave",
                        !.cve = <<cveData>>,
                        !.found = FindThreatByCve(threats, cveData.cveId),
                        !.g_count = Cardinality(DOMAIN threats)]]
    /\ nops' = nops - 1
    /\ UNCHANGED <<cache, msec, cveSyncJob, safeguards, assets, threats, vulns, risks, now, deleted, lastCOU,
                   lastWrite>>

\* processCVE: await threat.save() of the found threat with its new cveData
\* and probabilidad, or of a new threat whose codigo is the CVE id.
ProcessCVE_Save(p) ==
    /\ call[p].pc = "cveSave"
    /\ LET c == call[p]
           cveData == c.cve[1]
           probabilidad ==
               calculateProbabilityFromCVSS(cveData.cvssScore, cveData.severity)
           fresh == CHOOSE t \in CveThreatIds : t \notin DOMAIN threats
           doc == IF c.found # <<>>
                  THEN [c.found[1].doc EXCEPT !.cveData = <<cveData>>,
                                              !.probabilidad = probabilidad,
                                              !.ultimaActualizacion = now]
                  ELSE [codigo |-> cveData.cveId,
                        probabilidad |-> probabilidad,
                        cveData |-> <<cveData>>,
                        fechaDescubrimiento |-> cveData.publishedDate,
                        ultimaActualizacion |-> cveData.lastModifiedDate]
       IN IF ~ValidThreat(doc)
          THEN /\ call' = [call EXCEPT ![p] = Throw(c, "ValidationError")]
               /\ UNCHANGED threats
          ELSE IF c.found # <<>>
          THEN /\ threats' = [threats EXCEPT ![c.found[1].id] = doc]
               /\ call' = [call EXCEPT ![p] =
                             Return(c, [created |-> FALSE, updated |-> TRUE])]
          ELSE IF DuplicateCodigo(threats, doc)
          THEN /\ call' = [call EXCEPT ![p] = Throw(c, "DuplicateKey")]
               /\ UNCHANGED threats
          ELSE /\ threats' = [t \in DOMAIN threats \cup {fresh} |->
                                IF t = fresh THEN doc ELSE threats[t]]
               /\ call' = [call EXCEPT ![p] =
                             Return(c, [created |-> TRUE, updated |-> FALSE])]
    /\ UNCHANGED <<cache, msec, cveSyncJob, safeguards, assets, vulns, risks, now, nops, deleted, lastCOU,
                   lastWrite>>

\* ------------------------------------------------- the other collections

\* AssetService.updateAsset(id, {valorEconomico}).
UpdateAsset(a, valor) ==
    /\ nops > 0
    /\ nops' = nops - 1
    /\ a \in DOMAIN assets
    /\ assets[a].valorEconomico # valor
    /\ assets' = [assets EXCEPT ![a].valorEconomico = valor]
    /\ UNCHANGED <<cache, msec, cveSyncJob, safeguards, threats, vulns, risks, now, call, deleted,
                   lastCOU, lastWrite>>

\* AssetService.deleteAsset(id): refused while another asset lists id in its
\* dependencias.
DeleteAsset(a) ==
    /\ nops > 0
    /\ nops' = nops - 1
    /\ a \in DOMAIN assets
    /\ \A b \in DOMAIN assets : a \notin assets[b].dependencias
    /\ assets' = [b \in DOMAIN assets \ {a} |-> assets[b]]
    /\ UNCHANGED <<cache, msec, cveSyncJob, safeguards, threats, vulns, risks, now, call, deleted,
                   lastCOU, lastWrite>>

\* ThreatService.deleteThreat(id).
DeleteThreat(t) ==
    /\ nops > 0
    /\ nops' = nops - 1
    /\ t \in DOMAIN threats
    /\ threats' = [u \in DOMAIN threats \ {t} |-> threats[u]]
    /\ UNCHANGED <<cache, msec, cveSyncJob, safeguards, assets, vulns, risks, now, call, deleted,
                   lastCOU, lastWrite>>

\* Time passes.
Tick(step) ==
    /\ nops > 0
    /\ nops' = nops - 1
    /\ now' = now + step
    /\ UNCHANGED <<cache, msec, cveSyncJob, safeguards, assets, threats, vulns, risks, call, deleted, lastCOU,
                   lastWrite>>

\* ----------------------------------------------------------- specification

Valoracion(c, i, d, a, t) ==
    [confidencialidad |-> c, integridad |-> i, disponibilidad |-> d,
     autenticidad |-> a, trazabilidad |-> t]

InitData ==
    /\ assets = [a \in AssetIds |->
                   IF a = "a1"
                   THEN [valoracion |-> Valoracion(7, 10, 4, 2, 0),
                            valorEconomico |-> 100000, dependencias |-> {}]
                   ELSE [valoracion |-> Valoracion(3, 5, 5, 1, 2),
                            valorEconomico |-> 100000, dependencias |-> {"a1"}]]
    /\ threats = [t \in ThreatIds |->
                    [probabilidad |-> 8, fechaDescubrimiento |-> 0]]
    /\ \E S \in SUBSET VulnIds :
          vulns = [v \in S |-> [facilidadExplotacion |-> 9]]
    /\ risks = <<>>
    /\ now = 0
    /\ call = [p \in Procs |-> IdleCall]
    /\ deleted = {}
    /\ lastCOU = <<>>
    /\ lastWrite = [tr \in Triples |-> <<>>]
    /\ safeguards = <<>>
    /\ cveSyncJob = [isRunning |-> FALSE, lastSyncDate |-> <<>>]
    /\ cache = <<>>
    /\ msec = 0

Init == InitData /\ nops = MaxOps

InitSeq == InitData /\ nops = MaxSeqOps

DeleteIds == 1..(Len(risks) + 1)

Limits == {0, 1, 2}

\* The steps of createOrUpdateRisk and deleteRisk.
Upsert(p) ==
    \/ \E tr \in Asked : COU_Calculate(p, tr[1], tr[2], tr[3])
    \/ COU_FindAsset(p)
    \/ COU_FindOne(p)
    \/ COU_Save(p)
    \/ \E id \in DeleteIds : DeleteRisk_Find(p, id)
    \/ DeleteRisk_Save(p)

\* The steps of the other calls.
Other(p) ==
    \/ \E tr \in Asked : CalculateRiskCall(p, tr[1], tr[2], tr[3])
    \/ Recalc_Find(p)
    \/ Recalc_Populate(p)
    \/ Recalc_Iter(p)
    \/ GetRiskMatrix(p)
    \/ \E limit \in Limits : GetTopRisks(p, limit)

Environment ==
    \/ \E a \in AssetIds, valor \in ValoresEconomicos : UpdateAsset(a, valor)
    \/ \E a \in AssetIds : DeleteAsset(a)
    \/ \E t \in ThreatIds : DeleteThreat(t)
    \/ \E step \in TickSteps : Tick(step)

Next == (\E p \in Procs : Upsert(p)) \/ Environment

NextSeq == Upsert("p1") \/ Other("p1") \/ Environment

\* Two request slots running createOrUpdateRisk and deleteRisk, their steps
\* interleaving at the await points.
Spec == Init /\ [][Next]_vars

\* One request at a time.
SpecSeq == InitSeq /\ [][NextSeq]_vars

\* The calculator over its inputs: the asset's valuation and value, the
\* threat's probability and discovery date (one of them later than the
\* first clock values), the vulnerability's ease of exploitation and the
\* clock are drawn from the sets below; calculateRisk and createOrUpdateRisk
\* run on them while time passes.
CalcAssets ==
    {[valoracion |-> Valoracion(7, 10, 4, 2, 0), valorEconomico |-> 100000,
      dependencias |-> {}],
     [valoracion |-> Valoracion(8, 3, 5, 0, 1), valorEconomico |-> 50000,
      dependencias |-> {}]}

CalcProbabilidades == {8, 10}

CalcFacilidades == {6, 10}

\* Discovery dates, in hours: day 0 and day 100.
CalcDiscoveries == {0, 2400}

\* Clock values at the start, in days.
CalcDays == {0, 15, 30, 45, 90, 91, 164, 1000}

CalcTickSteps == {24, 360}

CalcVulns == {NoVuln, "v1"}

InitCalc ==
    /\ \E asset \in CalcAssets :
          assets = [a \in AssetIds |->
                      IF a = "a1" THEN asset
                      ELSE [valoracion |-> Valoracion(3, 5, 5, 1, 2),
                            valorEconomico |-> 100000,
                            dependencias |-> {"a1"}]]
    /\ \E pr \in CalcProbabilidades, fd \in CalcDiscoveries :
          threats = [t \in ThreatIds |->
                       [probabilidad |-> pr, fechaDescubrimiento |-> fd]]
    /\ \E f \in CalcFacilidades :
          vulns = [v \in VulnIds |-> [facilidadExplotacion |-> f]]
    /\ \E d \in CalcDays : now = d * HoursPerDay
    /\ risks = <<>>
    /\ call = [p \in Procs |-> IdleCall]
    /\ deleted = {}
    /\ lastCOU = <<>>
    /\ lastWrite = [tr \in Triples |-> <<>>]
    /\ safeguards = <<>>
    /\ cveSyncJob = [isRunning |-> FALSE, lastSyncDate |-> <<>>]
    /\ cache = <<>>
    /\ msec = 0
    /\ nops = MaxCalcOps

NextCalc ==
    \/ \E p \in Procs, v \in CalcVulns : CalculateRiskCall(p, "a1", "t1", v)
    \/ \E v \in CalcVulns : COU_Calculate("p1", "a1", "t1", v)
    \/ COU_FindAsset("p1")
    \/ COU_FindOne("p1")
    \/ COU_Save("p1")
    \/ \E step \in CalcTickSteps : Tick(step)

SpecCalc == InitCalc /\ [][NextCalc]_vars

\* createRisk beside createOrUpdateRisk and deleteRisk, one request at a
\* time.
CreateTriples == {<<"a1", "t1", NoVuln>>, <<"a1", "t1", "v1">>}

\* The probabilidad and impacto of a request body: absent, 0, or a value of
\* the range the controller lets through.
Probabilidades == {<<>>, <<0>>, <<5>>, <<9>>}

Impactos == {<<>>, <<4>>, <<9>>}

InitCreate == InitData /\ nops = MaxCreateOps

NextCreate ==
    \/ \E tr \in CreateTriples : COU_Calculate("p1", tr[1], tr[2], tr[3])
    \/ COU_FindAsset("p1")
    \/ COU_FindOne("p1")
    \/ COU_Save("p1")
    \/ \E tr \in CreateTriples, pr \in Probabilidades, im \in Impactos :
          CreateRisk_Calculate("p1", tr[1], tr[2], tr[3], pr, im)
    \/ CreateRisk_Save("p1")
    \/ \E id \in DeleteIds : DeleteRisk_Find("p1", id)
    \/ DeleteRisk_Save("p1")
    \/ \E step \in TickSteps : Tick(step)

SpecCreate == InitCreate /\ [][NextCreate]_vars

\* The CVE feed: entries for two CVE ids, without metrics, with a v2 metric
\* or with a v3.1 metric, ingested one after the other.
NvdEntry(id, v31, v2, modified) ==
    [id |-> id, cvssMetricV31 |-> v31, cvssMetricV2 |-> v2, published |-> 0,
     lastModified |-> modified]

NvdFeed ==
    {NvdEntry(id, <<>>, <<>>, 0) : id \in CveIds}
        \cup {NvdEntry(id, <<>>, <<[baseScore |-> sc]>>, 24) :
                 id \in CveIds, sc \in {35, 50, 75, 95}}
        \cup {NvdEntry(id, <<[baseScore |-> 98, baseSeverity |-> "CRITICAL"]>>,
                       <<[baseScore |-> 75]>>, 48) : id \in CveIds}

\* The collections of InitData, the threat carrying the fields the ingestion
\* reads as well.
InitCve ==
    /\ assets = [a \in AssetIds |->
                   IF a = "a1"
                   THEN [valoracion |-> Valoracion(7, 10, 4, 2, 0),
                            valorEconomico |-> 100000, dependencias |-> {}]
                   ELSE [valoracion |-> Valoracion(3, 5, 5, 1, 2),
                            valorEconomico |-> 100000, dependencias |-> {"a1"}]]
    /\ threats = [t \in ThreatIds |->
                    [codigo |-> "T-001", probabilidad |-> 8, cveData |-> <<>>,
                     fechaDescubrimiento |-> 0, ultimaActualizacion |-> 0]]
    /\ vulns = [v \in VulnIds |-> [facilidadExplotacion |-> 9]]
    /\ risks = <<>>
    /\ now = 0
    /\ call = [p \in Procs |-> IdleCall]
    /\ deleted = {}
    /\ lastCOU = <<>>
    /\ lastWrite = [tr \in Triples |-> <<>>]
    /\ safeguards = <<>>
    /\ cveSyncJob = [isRunning |-> FALSE, lastSyncDate |-> <<>>]
    /\ cache = <<>>
    /\ msec = 0
    /\ nops = MaxCveOps

NextCve ==
    \/ \E nvd \in NvdFeed : ProcessCVE_Find("p1", nvd)
    \/ ProcessCVE_Save("p1")

SpecCve == InitCve /\ [][NextCve]_vars

\* The requests of AssetService, one at a time.
InitAsset == InitData /\ nops = MaxAssetOps

NextAsset ==
    \/ \E id \in AssetIds : DeleteAsset_Find("p1", id)
    \/ DeleteAsset_Delete("p1")
    \/ \E id \in AssetIds, ds \in SUBSET AssetIds :
          UpdateAsset_Dependencias("p1", id, ds)

SpecAsset == InitAsset /\ [][NextAsset]_vars

\* ------------------------------------------------------- safeguards
SafeguardIds == {"s1", "s2"}

SafeguardCodigos == {"SG-1", "SG-2"}

EstadoSalvaguarda ==
    {"Propuesta", "Planificada", "En Implementación", "Implementada",
     "Obsoleta"}

\* A Date: an instant of the clock and the calendar months setMonth added
\* to it.
Date(t) == [t |-> t, meses |-> 0]

\* d.setMonth(d.getMonth() + meses)
AddMonths(d, meses) == [d EXCEPT !.meses = @ + meses]

\* new Safeguard(data): the fields given, estado and periodicidadRevision
\* defaulted.  A field is <<>> when absent and <<value>> when given.
NewSafeguard(data) ==
    [codigo |-> data.codigo,
     estado |-> IF data.estado = <<>> THEN "Propuesta" ELSE data.estado[1],
     periodicidadRevision |->
         IF data.periodicidadRevision = <<>> THEN 12
         ELSE data.periodicidadRevision[1],
     fechaImplementacion |-> data.fechaImplementacion,
     fechaRevision |-> data.fechaRevision]

\* The validators of safeguardSchema on the fields kept here.
ValidSafeguard(doc) ==
    /\ doc.estado \in EstadoSalvaguarda
    /\ doc.periodicidadRevision \in 1..60

\* runValidators: the same validators, on the fields an update gives.
ValidSafeguardUpdate(updateData) ==
    /\ updateData.estado # <<>> => updateData.estado[1] \in EstadoSalvaguarda
    /\ updateData.periodicidadRevision # <<>>
          => updateData.periodicidadRevision[1] \in 1..60

\* safeguardSchema.pre('save'): the review date of an implemented safeguard
\* that has none.
PreSaveSafeguard(doc) ==
    IF /\ doc.estado = "Implementada"
       /\ doc.fechaImplementacion # <<>>
       /\ doc.fechaRevision = <<>>
    THEN [doc EXCEPT !.fechaRevision =
             <<AddMonths(doc.fechaImplementacion[1],
                         doc.periodicidadRevision)>>]
    ELSE doc

\* safeguard.programarRevision(), called without meses.
programarRevision(doc) ==
    IF doc.fechaImplementacion # <<>>
    THEN [doc EXCEPT !.fechaRevision =
             <<AddMonths(doc.fechaImplementacion[1],
                         doc.periodicidadRevision)>>]
    ELSE doc

\* Safeguard.findOne({codigo}): the stored safeguards with the codigo.
FindSafeguardByCodigo(store, codigo) ==
    {s \in DOMAIN store : store[s].codigo = codigo}

\* The update document applied by $set: the fields given replace the stored
\* ones.
SetSafeguard(doc, updateData) ==
    [doc EXCEPT
       !.estado = IF updateData.estado = <<>> THEN @
                  ELSE updateData.estado[1],
       !.periodicidadRevision =
           IF updateData.periodicidadRevision = <<>> THEN @
           ELSE updateData.periodicidadRevision[1],
       !.fechaImplementacion =
           IF updateData.fechaImplementacion = <<>> THEN @
           ELSE updateData.fechaImplementacion]

\* createSafeguard(data): the codigo lookup, and the 400 when it is taken.
CreateSafeguard_Find(p, data) ==
    /\ CanStart(p)
    /\ LET c == [IdleCall EXCEPT !.op = "createSafeguard", !.sg = data]
       IN call' = [call EXCEPT ![p] =
                     IF FindSafeguardByCodigo(safeguards, data.codigo) # {}
                     THEN Throw(c, "BadRequest")
                     ELSE [c EXCEPT !.pc = "safeguardCreate"]]
    /\ nops' = nops - 1
    /\ UNCHANGED <<cache, msec, cveSyncJob, assets, threats, vulns, risks, now, deleted, lastCOU,
                   lastWrite, safeguards>>

\* createSafeguard: new Safeguard(data).save() -- validation, the pre-save
\* hook, the unique index on codigo, the insert.
CreateSafeguard_Save(p) ==
    /\ call[p].pc = "safeguardCreate"
    /\ LET c == call[p]
           doc == NewSafeguard(c.sg)
           free == SafeguardIds \ DOMAIN safeguards
       IN IF ~ValidSafeguard(doc)
          THEN /\ call' = [call EXCEPT ![p] = Throw(c, "ValidationError")]
               /\ UNCHANGED safeguards
          ELSE IF FindSafeguardByCodigo(safeguards, doc.codigo) # {}
                  \/ free = {}
          THEN /\ call' = [call EXCEPT ![p] = Throw(c, "DuplicateKey")]
               /\ UNCHANGED safeguards
          ELSE LET id == CHOOSE s \in free : TRUE
               IN /\ safeguards' =
                        [s \in DOMAIN safeguards \cup {id} |->
                            IF s = id THEN PreSaveSafeguard(doc)
                            ELSE safeguards[s]]
                  /\ call' = [call EXCEPT ![p] =
                                [c EXCEPT !.pc = "done", !.outcome = "ok",
                                          !.sid = id]]
    /\ UNCHANGED <<cache, msec, cveSyncJob, assets, threats, vulns, risks, now, nops, deleted, lastCOU,
                   lastWrite>>

\* updateSafeguard(id, updateData) without a codigo: the codigo lookup is
\* skipped; Safeguard.findByIdAndUpdate with runValidators validates the
\* fields given and sets them in the store.  No save() is made, so the
\* pre-save hook does not run.
UpdateSafeguard(p, id, updateData) ==
    /\ CanStart(p)
    /\ LET c == [IdleCall EXCEPT !.op = "updateSafeguard", !.sid = id,
                                 !.sg = updateData]
       IN IF ~ValidSafeguardUpdate(updateData)
          THEN /\ call' = [call EXCEPT ![p] = Throw(c, "ValidationError")]
               /\ UNCHANGED safeguards
          ELSE IF id \notin DOMAIN safeguards
          THEN /\ call' = [call EXCEPT ![p] = Throw(c, "NotFound")]
               /\ UNCHANGED safeguards
          ELSE /\ safeguards' =
                     [safeguards EXCEPT ![id] = SetSafeguard(@, updateData)]
               /\ call' = [call EXCEPT ![p] =
                             [c EXCEPT !.pc = "done", !.outcome = "ok"]]
    /\ nops' = nops - 1
    /\ UNCHANGED <<cache, msec, cveSyncJob, assets, threats, vulns, risks, now, deleted, lastCOU,
                   lastWrite>>

\* implementSafeguard(id, fechaImplementacion): Safeguard.findById, the 404,
\* then estado and fechaImplementacion set on the document in memory and
\* programarRevision().
ImplementSafeguard_Find(p, id, fechaImplementacion) ==
    /\ CanStart(p)
    /\ LET c == [IdleCall EXCEPT !.op = "implementSafeguard", !.sid = id]
       IN call' = [call EXCEPT ![p] =
             IF id \notin DOMAIN safeguards THEN Throw(c, "NotFound")
             ELSE [c EXCEPT
                     !.pc = "safeguardImplement",
                     !.sg = programarRevision(
                         [safeguards[id] EXCEPT
                            !.estado = "Implementada",
                            !.fechaImplementacion =
                                IF fechaImplementacion = <<>>
                                THEN <<Date(now)>>
                                ELSE fechaImplementacion])]]
    /\ nops' = nops - 1
    /\ UNCHANGED <<cache, msec, cveSyncJob, assets, threats, vulns, risks, now, deleted, lastCOU,
                   lastWrite, safeguards>>

\* implementSafeguard: safeguard.save() -- validation, the pre-save hook, the
\* write of the document's modified fields.
ImplementSafeguard_Save(p) ==
    /\ call[p].pc = "safeguardImplement"
    /\ LET c == call[p]
           doc == PreSaveSafeguard(c.sg)
       IN IF ~ValidSafeguard(c.sg)
          THEN /\ call' = [call EXCEPT ![p] = Throw(c, "ValidationError")]
               /\ UNCHANGED safeguards
          ELSE IF c.sid \notin DOMAIN safeguards
          THEN /\ call' = [call EXCEPT ![p] = Throw(c, "DocumentNotFound")]
               /\ UNCHANGED safeguards
          ELSE /\ safeguards' =
                     [safeguards EXCEPT
                        ![c.sid].estado = doc.estado,
                        ![c.sid].fechaImplementacion = doc.fechaImplementacion,
                        ![c.sid].fechaRevision = doc.fechaRevision]
               /\ call' = [call EXCEPT ![p] =
                             [c EXCEPT !.pc = "done", !.outcome = "ok"]]
    /\ UNCHANGED <<cache, msec, cveSyncJob, assets, threats, vulns, risks, now, nops, deleted, lastCOU,
                   lastWrite>>

\* The safeguard documents a client sends, and the updates.
SafeguardData ==
    [codigo : SafeguardCodigos,
     estado : {<<>>, <<"Implementada">>},
     periodicidadRevision : {<<>>, <<0>>},
     fechaImplementacion : {<<>>, <<Date(0)>>},
     fechaRevision : {<<>>, <<Date(720)>>}]

SafeguardUpdates ==
    [estado : {<<>>, <<"Implementada">>},
     periodicidadRevision : {<<>>, <<6>>, <<61>>},
     fechaImplementacion : {<<>>, <<Date(24)>>}]

\* The requests of SafeguardService, one at a time.
InitSafeguard == InitData /\ nops = MaxSafeguardOps

NextSafeguard ==
    \/ \E data \in SafeguardData : CreateSafeguard_Find("p1", data)
    \/ CreateSafeguard_Save("p1")
    \/ \E id \in SafeguardIds, updateData \in SafeguardUpdates :
          UpdateSafeguard("p1", id, updateData)
    \/ \E id \in SafeguardIds, fecha \in {<<>>, <<Date(48)>>} :
          ImplementSafeguard_Find("p1", id, fecha)
    \/ ImplementSafeguard_Save("p1")
    \/ \E step \in TickSteps : Tick(step)

SpecSafeguard == InitSafeguard /\ [][NextSafeguard]_vars

\* ------------------------------------------- the batch against deleteRisk
\* p1 issues createOrUpdateRisk and recalculateAllRisks requests while p2
\* issues deleteRisk requests; their awaits interleave.
InitBatch == InitData /\ nops = MaxBatchOps

NextBatch ==
    \/ \E tr \in Asked : COU_Calculate("p1", tr[1], tr[2], tr[3])
    \/ COU_FindAsset("p1")
    \/ COU_FindOne("p1")
    \/ COU_Save("p1")
    \/ Recalc_Find("p1")
    \/ Recalc_Populate("p1")
    \/ Recalc_Iter("p1")
    \/ \E id \in DeleteIds : DeleteRisk_Find("p2", id)
    \/ DeleteRisk_Save("p2")

SpecBatch == InitBatch /\ [][NextBatch]_vars

\* ------------------------------------------------------- the CVE sync job
\* processCVE(nvd) run to its end over the Threat collection: the collection
\* after it and what syncCVEs counts for it.
ProcessedCVE(store, nvd, t) ==
    LET cveData == transformNVDToCVEData(nvd)
        found == FindThreatByCve(store, cveData.cveId)
        probabilidad ==
            calculateProbabilityFromCVSS(cveData.cvssScore, cveData.severity)
        free == CveThreatIds \ DOMAIN store
        doc == IF found # <<>>
               THEN [found[1].doc EXCEPT !.cveData = <<cveData>>,
                                         !.probabilidad = probabilidad,
                                         !.ultimaActualizacion = t]
               ELSE [codigo |-> cveData.cveId,
                     probabilidad |-> probabilidad,
                     cveData |-> <<cveData>>,
                     fechaDescubrimiento |-> cveData.publishedDate,
                     ultimaActualizacion |-> cveData.lastModifiedDate]
    IN IF ~ValidThreat(doc)
       THEN [store |-> store, created |-> 0, updated |-> 0, errors |-> 1]
       ELSE IF found # <<>>
       THEN [store |-> [store EXCEPT ![found[1].id] = doc],
             created |-> 0, updated |-> 1, errors |-> 0]
       ELSE IF DuplicateCodigo(store, doc) \/ free = {}
       THEN [store |-> store, created |-> 0, updated |-> 0, errors |-> 1]
       ELSE LET fresh == CHOOSE u \in free : TRUE
            IN [store |-> [u \in DOMAIN store \cup {fresh} |->
                              IF u = fresh THEN doc ELSE store[u]],
                created |-> 1, updated |-> 0, errors |-> 0]

\* syncCVEs over one page of the feed: the page is empty or holds one CVE.
SyncCVEs(store, page, t) ==
    IF page = <<>>
    THEN [store |-> store, created |-> 0, updated |-> 0, errors |-> 0]
    ELSE ProcessedCVE(store, page[1], t)

\* The pages the feed answers with.
JobPages ==
    {<<>>, <<NvdEntry("CVE-1", <<>>, <<>>, 0)>>,
     <<NvdEntry("CVE-2",
                <<[baseScore |-> 98, baseSeverity |-> "CRITICAL"]>>,
                <<>>, 0)>>}

SyncOps == {"cronDaily", "cronWeekly", "manualSync", "syncRecent"}

\* A synchronisation is executing in the slot: between its
\* this.isRunning = true and its finally.
Syncing(c) ==
    c.op \in SyncOps /\ c.pc \in {"syncFeed", "syncFeedHigh", "syncRecalc"}

\* finally { this.isRunning = false }
SyncFinallyKept(job) == job

SyncFinally(job) == [job EXCEPT !.isRunning = FALSE]

\* The entry of a synchronisation: the isRunning test of the caller, then
\* this.isRunning = true and the call of syncCVEs, with no await in between.
\* refused is what the caller does when the flag is set.
EnterSync(p, op, force, refused) ==
    /\ CanStart(p)
    /\ LET c == [IdleCall EXCEPT !.op = op, !.force = force, !.endDate = now]
       IN IF cveSyncJob.isRunning
          THEN /\ call' = [call EXCEPT ![p] =
                             [c EXCEPT !.pc = "done", !.outcome = refused]]
               /\ UNCHANGED cveSyncJob
          ELSE /\ call' = [call EXCEPT ![p] = [c EXCEPT !.pc = "syncFeed"]]
               /\ cveSyncJob' = [cveSyncJob EXCEPT !.isRunning = TRUE]
    /\ nops' = nops - 1
    /\ UNCHANGED <<cache, msec, assets, threats, vulns, risks, now, deleted, lastCOU,
                   lastWrite, safeguards>>

\* cron '0 2 * * *': skipped while isRunning, else syncRecentCVEs().
CronDaily(p) == EnterSync(p, "cronDaily", FALSE, "Skipped")

\* cron '0 3 * * 0': skipped while isRunning, else syncCriticalCVEs().
CronWeekly(p) == EnterSync(p, "cronWeekly", FALSE, "Skipped")

\* manualSync(options): throws 'Ya hay una sincronización en curso' while
\* isRunning.
ManualSync(p, forceRecalculation) ==
    EnterSync(p, "manualSync", forceRecalculation, "YaHaySincronizacion")

\* CVEController.syncRecent: 409 while getStatus().isRunning, else
\* syncRecentCVEs() is started in the background.
SyncRecent(p) == EnterSync(p, "syncRecent", FALSE, "Conflict")

\* What follows the last syncCVEs of a synchronisation: lastSyncDate for
\* the recent ones, then the recalculation when something was stored (or
\* manualSync was asked to force it), else the finally.
AfterFeed(c, results, job) ==
    LET recent == c.op \in {"cronDaily", "syncRecent"}
        job2 == IF recent THEN [job EXCEPT !.lastSyncDate = <<c.endDate>>]
                ELSE job
        recalc == \/ results.created > 0
                  \/ results.updated > 0
                  \/ (c.op = "manualSync" /\ c.force)
    IN IF recalc
       THEN [frame |-> [c EXCEPT !.results = <<results>>, !.pc = "syncRecalc"],
             job |-> job2]
       ELSE [frame |-> [c EXCEPT !.results = <<results>>, !.pc = "done",
                                 !.outcome = "ok"],
             job |-> SyncFinally(job2)]

\* await cveIntegrationService.syncCVEs(...) returns.  syncCriticalCVEs goes
\* on to its second syncCVEs, for the HIGH severity.
Sync_Feed(p, page) ==
    /\ call[p].op \in SyncOps /\ call[p].pc = "syncFeed"
    /\ LET c == call[p]
           r == SyncCVEs(threats, page, now)
           results == [created |-> r.created, updated |-> r.updated,
                       errors |-> r.errors]
           after == AfterFeed(c, results, cveSyncJob)
       IN /\ threats' = r.store
          /\ IF c.op = "cronWeekly"
             THEN /\ call' = [call EXCEPT ![p] =
                                [c EXCEPT !.results = <<results>>,
                                          !.pc = "syncFeedHigh"]]
                  /\ UNCHANGED cveSyncJob
             ELSE /\ call' = [call EXCEPT ![p] = after.frame]
                  /\ cveSyncJob' = after.job
    /\ UNCHANGED <<cache, msec, assets, vulns, risks, now, nops, deleted, lastCOU,
                   lastWrite, safeguards>>

\* syncCriticalCVEs: its second syncCVEs returns and the totals are added.
Sync_FeedHigh(p, page) ==
    /\ call[p].op \in SyncOps /\ call[p].pc = "syncFeedHigh"
    /\ LET c == call[p]
           r == SyncCVEs(threats, page, now)
           totalResults ==
               [created |-> c.results[1].created + r.created,
                updated |-> c.results[1].updated + r.updated,
                errors |-> c.results[1].errors + r.errors]
           after == AfterFeed(c, totalResults, cveSyncJob)
       IN /\ threats' = r.store
          /\ call' = [call EXCEPT ![p] = after.frame]
          /\ cveSyncJob' = after.job
    /\ UNCHANGED <<cache, msec, assets, vulns, risks, now, nops, deleted, lastCOU,
                   lastWrite, safeguards>>

\* The recalculation of the synchronisation returns, then the finally.  The
\* Risk collection is empty wherever the job runs here, so
\* riskService.recalculateAllRisks() finds no record and returns {0, 0}.
Sync_Recalc(p) ==
    /\ call[p].op \in SyncOps /\ call[p].pc = "syncRecalc"
    /\ Vigentes(risks) = {}
    /\ call' = [call EXCEPT ![p] =
                  [call[p] EXCEPT !.pc = "done", !.outcome = "ok"]]
    /\ cveSyncJob' = SyncFinally(cveSyncJob)
    /\ UNCHANGED <<cache, msec, assets, threats, vulns, risks, now, nops, deleted, lastCOU,
                   lastWrite, safeguards>>

\* An awaited call rejects: the catch logs and rethrows, then the finally.
\* recalculateAffectedRisks catches its own errors, so only manualSync can
\* throw from its recalculation.
Sync_Throw(p) ==
    /\ call[p].op \in SyncOps
    /\ \/ call[p].pc \in {"syncFeed", "syncFeedHigh"}
       \/ (call[p].pc = "syncRecalc" /\ call[p].op = "manualSync")
    /\ call' = [call EXCEPT ![p] =
                  [call[p] EXCEPT !.pc = "done", !.outcome = "Error"]]
    /\ cveSyncJob' = SyncFinally(cveSyncJob)
    /\ UNCHANGED <<cache, msec, assets, threats, vulns, risks, now, nops, deleted, lastCOU,
                   lastWrite, safeguards>>

\* forceStop(): this.isRunning = false, whatever is executing.
ForceStop ==
    /\ nops > 0
    /\ nops' = nops - 1
    /\ cveSyncJob' = [cveSyncJob EXCEPT !.isRunning = FALSE]
    /\ UNCHANGED <<cache, msec, assets, threats, vulns, risks, now, call, deleted, lastCOU,
                   lastWrite, safeguards>>

\* The collections of InitCve, the job idle.
InitJob ==
    /\ assets = [a \in AssetIds |->
                   IF a = "a1"
                   THEN [valoracion |-> Valoracion(7, 10, 4, 2, 0),
                            valorEconomico |-> 100000, dependencias |-> {}]
                   ELSE [valoracion |-> Valoracion(3, 5, 5, 1, 2),
                            valorEconomico |-> 100000, dependencias |-> {"a1"}]]
    /\ threats = [t \in ThreatIds |->
                    [codigo |-> "T-001", probabilidad |-> 8, cveData |-> <<>>,
                     fechaDescubrimiento |-> 0, ultimaActualizacion |-> 0]]
    /\ vulns = [v \in VulnIds |-> [facilidadExplotacion |-> 9]]
    /\ risks = <<>>
    /\ now = 0
    /\ call = [p \in Procs |-> IdleCall]
    /\ deleted = {}
    /\ lastCOU = <<>>
    /\ lastWrite = [tr \in Triples |-> <<>>]
    /\ safeguards = <<>>
    /\ cveSyncJob = [isRunning |-> FALSE, lastSyncDate |-> <<>>]
    /\ cache = <<>>
    /\ msec = 0
    /\ nops = MaxJobOps

\* What an executing synchronisation does next.
SyncStep(p) ==
    \/ \E page \in JobPages : Sync_Feed(p, page)
    \/ \E page \in JobPages : Sync_FeedHigh(p, page)
    \/ Sync_Recalc(p)
    \/ Sync_Throw(p)

NextJob ==
    \/ \E p \in Procs : CronDaily(p)
    \/ \E p \in Procs : CronWeekly(p)
    \/ \E p \in Procs, force \in BOOLEAN : ManualSync(p, force)
    \/ \E p \in Procs : SyncRecent(p)
    \/ \E p \in Procs : SyncStep(p)
    \/ ForceStop
    \/ \E step \in TickSteps : Tick(step)

SpecJob == InitJob /\ [][NextJob]_vars

\* The awaited feed and store calls return: an executing synchronisation
\* takes its next step.
SpecJobLive == SpecJob /\ \A p \in Procs : WF_vars(SyncStep(p))

\* ----------------------------------------------------- the response cache
\* Strings the cache code searches are sequences of characters.
Contains(str, sub) ==
    \E i \in 1..(Len(str) - Len(sub) + 1) :
        SubSeq(str, i, i + Len(sub) - 1) = sub

\* CACHE_TTL.risk_matrix and CACHE_TTL.risks, in seconds.
TtlRiskMatrix == 600
TtlRisks == 300

\* Date.now(), in milliseconds.
DateNow == now * MsPerHour + msec

\* The requests of the risks router.  The router is mounted at
\* /api/v1/risks, so inside it req.path is the rest of the URL and
\* req.route.path is the path the route was registered with.
GetMatrix ==
    [method |-> <<"G", "E", "T">>, routePath |-> <<"/", "m", "a", "t", "r", "i", "x">>, path |-> <<"/", "m", "a", "t", "r", "i", "x">>,
     routeParams |-> <<>>, ttl |-> TtlRiskMatrix, limit |-> 0]

GetTop(limit) ==
    [method |-> <<"G", "E", "T">>, routePath |-> <<"/", "t", "o", "p", "/", ":", "l", "i", "m", "i", "t", "?">>,
     path |-> <<"/", "t", "o", "p", "/">> \o <<ToString(limit)>>,
     routeParams |-> <<"l", "i", "m", "i", "t", "=">> \o <<ToString(limit)>>,
     ttl |-> TtlRisks, limit |-> limit]

PostCalculate ==
    [method |-> <<"P", "O", "S", "T">>, routePath |-> <<"/", "c", "a", "l", "c", "u", "l", "a", "t", "e">>, path |-> <<"/", "c", "a", "l", "c", "u", "l", "a", "t", "e">>,
     routeParams |-> <<>>, ttl |-> 0, limit |-> 0]

PostRecalculateAll ==
    [method |-> <<"P", "O", "S", "T">>, routePath |-> <<"/", "r", "e", "c", "a", "l", "c", "u", "l", "a", "t", "e", "-", "a", "l", "l">>,
     path |-> <<"/", "r", "e", "c", "a", "l", "c", "u", "l", "a", "t", "e", "-", "a", "l", "l">>, routeParams |-> <<>>, ttl |-> 0,
     limit |-> 0]

DeleteById(id) ==
    [method |-> <<"D", "E", "L", "E", "T", "E">>, routePath |-> <<"/", ":", "i", "d">>,
     path |-> <<"/", ToString(id)>>,
     routeParams |-> <<"i", "d", "=">> \o <<ToString(id)>>, ttl |-> 0, limit |-> 0]

\* generateCacheKey(req): method:route path, then the route parameters
\* after a '?'.  No query parameter is sent here.
generateCacheKey(req) ==
    LET baseKey == req.method \o <<":">> \o req.routePath
    IN IF req.routeParams = <<>> THEN baseKey
       ELSE baseKey \o <<"?">> \o req.routeParams

\* now - entry.timestamp > entry.ttl * 1000
ExpiredNever(entry, t) == FALSE

Expired(entry, t) == t - entry.timestamp > entry.ttl * MsPerSecond

\* InMemoryCache.get(key) at time t: the data returned (<<>> for null) and
\* the map after it.
CacheGet(store, key, t) ==
    IF key \notin DOMAIN store
    THEN [data |-> <<>>, store |-> store]
    ELSE IF Expired(store[key], t)
    THEN [data |-> <<>>,
          store |-> [k \in DOMAIN store \ {key} |-> store[k]]]
    ELSE [data |-> <<store[key].data>>, store |-> store]

\* InMemoryCache.set(key, data, ttl) at time t.
CacheSet(store, key, data, ttl, t) ==
    [k \in DOMAIN store \cup {key} |->
        IF k = key THEN [data |-> data, timestamp |-> t, ttl |-> ttl]
        ELSE store[k]]

\* invalidatePattern('.*' + sub + '.*'): the keys holding sub are deleted.
InvalidatePattern(store, sub) ==
    [k \in {j \in DOMAIN store : ~Contains(j, sub)} |-> store[k]]

\* The branches of cacheInvalidationMiddleware over req.path.
Invalidated(store, path) ==
    LET dashboard == <<"/", "d", "a", "s", "h", "b", "o", "a", "r", "d">>
        both(sub) == InvalidatePattern(InvalidatePattern(store, sub), dashboard)
    IN IF Contains(path, <<"/", "c", "v", "e">>) THEN both(<<"/", "c", "v", "e">>)
       ELSE IF Contains(path, <<"/", "t", "h", "r", "e", "a", "t", "s">>) THEN both(<<"/", "t", "h", "r", "e", "a", "t", "s">>)
       ELSE IF Contains(path, <<"/", "a", "s", "s", "e", "t", "s">>)
       THEN InvalidatePattern(both(<<"/", "a", "s", "s", "e", "t", "s">>), <<"/", "r", "i", "s", "k", "s">>)
       ELSE IF Contains(path, <<"/", "r", "i", "s", "k", "s">>) THEN both(<<"/", "r", "i", "s", "k", "s">>)
       ELSE IF Contains(path, <<"/", "s", "a", "f", "e", "g", "u", "a", "r", "d", "s">>) THEN both(<<"/", "s", "a", "f", "e", "g", "u", "a", "r", "d", "s">>)
       ELSE IF Contains(path, <<"/", "v", "u", "l", "n", "e", "r", "a", "b", "i", "l", "i", "t", "i", "e", "s">>) THEN both(<<"/", "v", "u", "l", "n", "e", "r", "a", "b", "i", "l", "i", "t", "i", "e", "s">>)
       ELSE store

\* What the handler of a GET route answers from the Risk collection.
HandlerData(req, store) ==
    IF req.routePath = <<"/", "m", "a", "t", "r", "i", "x">> THEN [matrix |-> RiskMatrix(store)]
    ELSE [top |-> TopRisks(store, req.limit)]

\* The request a RiskService call of the router was made for.
RequestOf(c) ==
    IF c.op = "createOrUpdateRisk" THEN PostCalculate
    ELSE IF c.op = "recalculateAllRisks" THEN PostRecalculateAll
    ELSE DeleteById(c.arg)

WriteOps == {"createOrUpdateRisk", "recalculateAllRisks", "deleteRisk"}

\* The slot takes the next request: the previous one has been answered.
Answered(p) ==
    call[p].pc = "idle" \/ (call[p].pc = "done" /\ call[p].op = "GET")

\* cacheMiddleware on a GET: the key, cache.get, and the cached answer when
\* there is one; else the handler is entered.
Http_Get(p, req) ==
    /\ Answered(p) /\ nops > 0
    /\ LET key == generateCacheKey(req)
           got == CacheGet(cache, key, DateNow)
           c == [IdleCall EXCEPT
                   !.op = "GET", !.req = <<req>>, !.g_at = DateNow,
                   !.g_entry = IF key \in DOMAIN cache THEN <<cache[key]>>
                               ELSE <<>>]
       IN /\ cache' = got.store
          /\ call' = [call EXCEPT ![p] =
                        IF got.data # <<>>
                        THEN [c EXCEPT !.pc = "done", !.outcome = "ok",
                                       !.hit = TRUE, !.ret = got.data]
                        ELSE [c EXCEPT !.pc = "handler"]]
    /\ nops' = nops - 1
    /\ UNCHANGED <<assets, threats, vulns, risks, now, msec, deleted, lastCOU,
                   lastWrite, safeguards, cveSyncJob>>

\* The handler of the GET returns and res.json({success: true, data})
\* stores data under the key with the route's TTL.
Http_GetHandler(p) ==
    /\ call[p].op = "GET" /\ call[p].pc = "handler"
    /\ LET c == call[p]
           req == c.req[1]
           data == HandlerData(req, risks)
       IN /\ cache' = CacheSet(cache, generateCacheKey(req), data, req.ttl,
                               DateNow)
          /\ call' = [call EXCEPT ![p] =
                        [c EXCEPT !.pc = "done", !.outcome = "ok",
                                  !.ret = <<data>>]]
    /\ UNCHANGED <<assets, threats, vulns, risks, now, msec, nops, deleted,
                   lastCOU, lastWrite, safeguards, cveSyncJob>>

\* res.json of a POST or DELETE of the router, through
\* cacheInvalidationMiddleware: a successful answer invalidates by req.path.
Http_Respond(p) ==
    /\ call[p].op \in WriteOps /\ call[p].pc = "done"
    /\ cache' = IF call[p].outcome = "ok"
                THEN Invalidated(cache, RequestOf(call[p]).path)
                ELSE cache
    /\ call' = [call EXCEPT ![p] = IdleCall]
    /\ UNCHANGED <<assets, threats, vulns, risks, now, msec, nops, deleted,
                   lastCOU, lastWrite, safeguards, cveSyncJob>>

\* setInterval(cleanup, 5 min): the expired entries are deleted.
CacheCleanup ==
    /\ \E k \in DOMAIN cache : Expired(cache[k], DateNow)
    /\ cache' = [k \in {j \in DOMAIN cache : ~Expired(cache[j], DateNow)} |->
                    cache[k]]
    /\ UNCHANGED <<assets, threats, vulns, risks, now, msec, nops, call,
                   deleted, lastCOU, lastWrite, safeguards, cveSyncJob>>

\* Time passes, in milliseconds.
TickMs(step) ==
    /\ nops > 0
    /\ nops' = nops - 1
    /\ msec' = (msec + step) % MsPerHour
    /\ now' = now + ((msec + step) \div MsPerHour)
    /\ UNCHANGED <<assets, threats, vulns, risks, call, cache, deleted,
                   lastCOU, lastWrite, safeguards, cveSyncJob>>

CacheTickSteps == {1, 300000}

CacheLimits == {1, 2}

CacheAsked == {<<"a1", "t1", NoVuln>>, <<"a2", "t1", NoVuln>>}

\* The requests of the risks router, one at a time.
InitCache == InitData /\ nops = MaxCacheOps

NextCache ==
    \/ Http_Get("p1", GetMatrix)
    \/ \E limit \in CacheLimits : Http_Get("p1", GetTop(limit))
    \/ Http_GetHandler("p1")
    \/ \E tr \in CacheAsked :
          Answered("p1") /\ COU_Calculate("p1", tr[1], tr[2], tr[3])
    \/ COU_FindAsset("p1")
    \/ COU_FindOne("p1")
    \/ COU_Save("p1")
    \/ \E id \in DeleteIds : Answered("p1") /\ DeleteRisk_Find("p1", id)
    \/ DeleteRisk_Save("p1")
    \/ Answered("p1") /\ Recalc_Find("p1")
    \/ Recalc_Populate("p1")
    \/ Recalc_Iter("p1")
    \/ Http_Respond("p1")
    \/ CacheCleanup
    \/ \E step \in CacheTickSteps : TickMs(step)

SpecCache == InitCache /\ [][NextCache]_vars

\* ------------------------------------------------------------- properties

OfTriple(tr) == {i \in Ids(risks) : TripleOf(risks[i]) = tr}

IsDone(c, op) == c.op = op /\ c.pc = "done"

Range(seq) == {seq[n] : n \in 1..Len(seq)}

\* C1: after any sequence of createOrUpdateRisk calls the Risk collection
\* holds at most one document with vigente = true for each triple.
C1_OneActivePerTriple ==
    \A tr \in Triples :
        Cardinality({i \in OfTriple(tr) : risks[i].vigente}) <= 1

\* Two createOrUpdateRisk calls for one triple have both returned and the
\* triple has its active document.
C1_Witness ==
    \E p, q \in Procs :
        /\ p # q
        /\ IsDone(call[p], "createOrUpdateRisk") /\ call[p].outcome = "ok"
        /\ IsDone(call[q], "createOrUpdateRisk") /\ call[q].outcome = "ok"
        /\ <<call[p].a, call[p].t, call[p].v>> = <<call[q].a, call[q].t, call[q].v>>
        /\ \E i \in OfTriple(<<call[p].a, call[p].t, call[p].v>>) : risks[i].vigente

\* C2: when createOrUpdateRisk calls for one triple interleave at their
\* await points, no reachable state of the Risk collection holds two
\* documents of that triple.
C2_NoTwoRecordsPerTriple ==
    \A i, j \in Ids(risks) :
        i # j => TripleOf(risks[i]) # TripleOf(risks[j])

\* Two calls for one triple both looked the triple up before either saved:
\* one inserted, the other's insert was refused by the unique index.
C2_Witness ==
    \E p, q \in Procs :
        /\ p # q
        /\ IsDone(call[p], "createOrUpdateRisk") /\ call[p].outcome = "ok"
        /\ IsDone(call[q], "createOrUpdateRisk")
        /\ call[q].outcome = "DuplicateKey"
        /\ <<call[p].a, call[p].t, call[p].v>> = <<call[q].a, call[q].t, call[q].v>>
        /\ call[p].existing = <<>> /\ call[q].existing = <<>>

\* The previous createOrUpdateRisk call returned a document for the same
\* triple, and this call read the same asset, threat and vulnerability on
\* the same day.
Repeated(c) ==
    /\ IsDone(c, "createOrUpdateRisk")
    /\ c.g_prev # <<>>
    /\ c.g_prev[1].outcome = "ok"
    /\ <<c.g_prev[1].a, c.g_prev[1].t, c.g_prev[1].v>> = <<c.a, c.t, c.v>>
    /\ c.g_in # <<>>
    /\ c.g_in = c.g_prev[1].in
    /\ c.asset = c.g_prev[1].asset

\* C3: createOrUpdateRisk called twice for a triple while asset, threat,
\* vulnerability and day are unchanged leaves exactly one document of the
\* triple, and the second call returns the valorRiesgo and nivelRiesgo the
\* first returned.
C3_Idempotent ==
    \A p \in Procs :
        LET c == call[p]
        IN Repeated(c) =>
              /\ c.outcome = "ok"
              /\ c.ret[1].doc.valorRiesgo = c.g_prev[1].ret[1].doc.valorRiesgo
              /\ c.ret[1].doc.nivelRiesgo = c.g_prev[1].ret[1].doc.nivelRiesgo
              /\ Cardinality(OfTriple(<<c.a, c.t, c.v>>)) = 1

\* A repeated call has returned, for a triple without vulnerability.
C3_Witness ==
    \E p \in Procs :
        /\ Repeated(call[p])
        /\ call[p].outcome = "ok"
        /\ call[p].v = NoVuln

\* The records the batch found whose asset populate did not find.
Orphans(c) == {n \in 1..Len(c.list) : c.list[n].activo = "null"}

\* C4: with N active records of which M (1 <= M < N) reference a deleted
\* asset and the others recalculating without error, recalculateAllRisks
\* returns processed = N - M and errors = M and does not throw.
C4_BatchCounts ==
    \A p \in Procs :
        LET c == call[p]
            N == Len(c.list)
            M == Cardinality(Orphans(c))
        IN (IsDone(c, "recalculateAllRisks") /\ 1 <= M /\ M < N /\ c.g_clean)
              => /\ c.outcome = "ok"
                 /\ c.processed = N - M
                 /\ c.errors = M

\* A batch over two records, one of a deleted asset, has returned.
C4_Witness ==
    \E p \in Procs :
        /\ IsDone(call[p], "recalculateAllRisks")
        /\ call[p].g_clean
        /\ Cardinality(Orphans(call[p])) = 1
        /\ Len(call[p].list) = 2
        /\ call[p].processed = 1

MatrixIds(m) ==
    Range(m.criticos) \cup Range(m.altos) \cup Range(m.medios)
        \cup Range(m.bajos) \cup Range(m.muyBajos)

\* C5: once deleteRisk(id) has succeeded the document stays stored with
\* vigente = false and no later getRiskMatrix() or getTopRisks() returns it,
\* whatever ran in between.
C5_SoftDeletedStaysOut ==
    \A id \in deleted :
        /\ id \in Ids(risks)
        /\ ~risks[id].vigente
        /\ id \notin MatrixIds(RiskMatrix(risks))
        /\ id \notin Range(TopRisks(risks, 0))
        /\ \A p \in Procs :
              /\ IsDone(call[p], "getRiskMatrix") => id \notin MatrixIds(call[p].matrix)
              /\ IsDone(call[p], "getTopRisks") => id \notin Range(call[p].top)

\* createOrUpdateRisk has finished, past its validators, for a triple whose
\* only stored document was soft-deleted when the call looked it up.
OnSoftDeleted(c) ==
    /\ IsDone(c, "createOrUpdateRisk")
    /\ c.g_soft
    /\ c.outcome # "ValidationError"

\* C6: createOrUpdateRisk matches only an active document: when the only
\* stored document of the triple is soft-deleted, the call inserts a new
\* active document and leaves the soft-deleted one as it was, vigente =
\* false included.
C6_InsertsBesideSoftDeleted ==
    \A p \in Procs :
        LET c == call[p]
        IN OnSoftDeleted(c) =>
              /\ c.outcome = "ok"
              /\ Len(risks) = c.g_len + 1
              /\ risks[Len(risks)].vigente
              /\ TripleOf(risks[Len(risks)]) = <<c.a, c.t, c.v>>
              /\ \A i \in OfTriple(<<c.a, c.t, c.v>>) \ {Len(risks)} :
                    ~risks[i].vigente

\* C7: under concurrent createOrUpdateRisk calls for one triple the last
\* writer wins: the stored document of the triple holds the calculation
\* values of the call that issued its save last.
C7_LastWriterWins ==
    \A tr \in Triples :
        lastWrite[tr] # <<>> =>
            \E i \in OfTriple(tr) :
                /\ risks[i].calculos = lastWrite[tr][1].calculos
                /\ risks[i].valorRiesgo = lastWrite[tr][1].valorRiesgo
                /\ risks[i].nivelRiesgo = lastWrite[tr][1].nivelRiesgo

\* The calculation createOrUpdateRisk would store now for document r.
Fresh(r) ==
    RiskDoc(r.activo, r.amenaza, r.vulnerabilidad,
            CalculosRiesgo(assets[r.activo], threats[r.amenaza],
                           FindVuln(r.vulnerabilidad), now),
            assets[r.activo], now)

\* C8: when recalculateAllRisks returns (asset, threat, vulnerability and
\* day unchanged since it started), every record that was active at its
\* start and whose asset and threat exist holds the calculos, valorRiesgo
\* and nivelRiesgo of a fresh calculation for its own triple.
C8_BatchLeavesFresh ==
    \A p \in Procs :
        LET c == call[p]
        IN (IsDone(c, "recalculateAllRisks") /\ c.g_env = <<Env>>) =>
              \A n \in 1..Len(c.list) :
                  LET r == risks[c.list[n].id]
                  IN (r.activo \in DOMAIN assets /\ r.amenaza \in DOMAIN threats)
                        => /\ r.calculos = Fresh(r).calculos
                           /\ r.valorRiesgo = Fresh(r).valorRiesgo
                           /\ r.nivelRiesgo = Fresh(r).nivelRiesgo

Direct(c) == c.op \in {"createOrUpdateRisk", "calculateRisk"}

\* C9: createOrUpdateRisk and calculateRisk called with an asset id or a
\* threat id that matches no stored document fail with NotFound (404), and
\* no step of such a call inserts or modifies a Risk document.
C9_NotFoundLeavesStore ==
    /\ [](\A p \in Procs :
            (Direct(call[p]) /\ call[p].pc = "done" /\ call[p].g_missing)
                => (call[p].outcome = "NotFound" /\ call[p].ret = <<>>))
    /\ [][\A p \in Procs :
            (call'[p] # call[p] /\ Direct(call'[p]) /\ call'[p].g_missing)
                => risks' = risks]_vars

\* createOrUpdateRisk has failed with NotFound while the collection holds a
\* document.
C9_Witness ==
    \E p \in Procs :
        /\ IsDone(call[p], "createOrUpdateRisk")
        /\ call[p].g_missing
        /\ call[p].outcome = "NotFound"
        /\ risks # <<>>

\* C10: calculateRisk and createOrUpdateRisk called with a vulnerabilityId
\* that matches no stored vulnerability fail with NotFound.
C10_MissingVulnerabilityNotFound ==
    \A p \in Procs :
        (Direct(call[p]) /\ call[p].pc = "done"
            /\ call[p].v # NoVuln /\ call[p].v \notin DOMAIN vulns)
                => call[p].outcome = "NotFound"

\* C11: the nivelRiesgo stored by createOrUpdateRisk classifies
\* calculos.exposicion with closed lower boundaries: >= 80 Critico, >= 60
\* Alto, >= 40 Medio, >= 20 Bajo, lower Muy Bajo.
C11_LevelOfExposure ==
    \A i \in Ids(risks) :
        LET e == risks[i].calculos.exposicion
            nivel == risks[i].nivelRiesgo
        IN /\ nivel = "Critico" <=> e.n >= 80 * e.d
           /\ nivel = "Alto" <=> (e.n >= 60 * e.d /\ e.n < 80 * e.d)
           /\ nivel = "Medio" <=> (e.n >= 40 * e.d /\ e.n < 60 * e.d)
           /\ nivel = "Bajo" <=> (e.n >= 20 * e.d /\ e.n < 40 * e.d)
           /\ nivel = "Muy Bajo" <=> e.n < 20 * e.d

\* Stored: an exposure of exactly 80, Critico, beside one of exactly 40,
\* Medio.
C11_Witness ==
    /\ \E i \in Ids(risks) :
          /\ risks[i].calculos.exposicion = RInt(80)
          /\ risks[i].nivelRiesgo = "Critico"
    /\ \E i \in Ids(risks) :
          /\ risks[i].calculos.exposicion = RInt(40)
          /\ risks[i].nivelRiesgo = "Medio"

\* A finished calculateRisk that returned a calculation.
Calculated(c) == IsDone(c, "calculateRisk") /\ c.outcome = "ok"

\* C12: whatever the discovery date and the clock, the temporal factor lies
\* in [0.5, 1.0]; in the age in days it is non-decreasing on 0..30, equal to
\* 1.0 for 30 < age <= 90 and non-increasing after 90, never below 0.8.
C12_TemporalFactorShape ==
    \A p \in Procs :
        Calculated(call[p]) =>
            LET f == call[p].calc[1].factorTemporal
                age == call[p].g_in[1].days
            IN /\ RLeq(Rat(1, 2), f) /\ RLeq(f, RInt(1))
               /\ (age > RampDays /\ age <= PeakDays) => f = RInt(1)
               /\ age > PeakDays => RLeq(Rat(4, 5), f)
               /\ \A q \in Procs :
                     Calculated(call[q]) /\ age <= call[q].g_in[1].days =>
                        LET g == call[q].calc[1].factorTemporal
                            later == call[q].g_in[1].days
                        IN /\ (age >= 0 /\ later <= RampDays) => RLeq(f, g)
                           /\ age > PeakDays => RLeq(g, f)

\* The five valuation dimensions of an asset.
Dimensiones(asset) ==
    {asset.valoracion.confidencialidad, asset.valoracion.integridad,
     asset.valoracion.disponibilidad, asset.valoracion.autenticidad,
     asset.valoracion.trazabilidad}

\* x = (a / b) * y, for a rational y and integers a, b > 0.
IsScaled(x, a, b, y) == x.n * b * y.d = a * y.n * x.d

\* C13: calculateRisk returns probabilidadAjustada = probabilidad x
\* (facilidadExplotacion / 10, or 0.5 without a vulnerability) x
\* factorTemporal, impactoCalculado = max of the five dimensions x
\* (valorEconomico / 100000), exposicion = their product and riesgoInherente
\* = probabilidad x that max; value 100000, max 10, probability 8, no
\* vulnerability give exposure 40 at 45 days and 20 at 0 days.
C13_CalculationFormula ==
    \A p \in Procs :
        Calculated(call[p]) =>
            LET in == call[p].g_in[1]
                k == call[p].calc[1]
                m == CHOOSE x \in Dimensiones(in.asset) :
                        \A y \in Dimensiones(in.asset) : y <= x
                scenario == /\ in.asset.valorEconomico = 100000
                            /\ m = 10
                            /\ in.threat.probabilidad = 8
                            /\ in.vuln = <<>>
            IN /\ IF in.vuln = <<>>
                  THEN IsScaled(k.probabilidadAjustada,
                                in.threat.probabilidad, 2, k.factorTemporal)
                  ELSE IsScaled(k.probabilidadAjustada,
                                in.threat.probabilidad
                                    * in.vuln[1].facilidadExplotacion,
                                10, k.factorTemporal)
               /\ IsScaled(k.impactoCalculado, in.asset.valorEconomico,
                           100000, RInt(m))
               /\ k.exposicion.n * k.probabilidadAjustada.d
                      * k.impactoCalculado.d
                    = k.probabilidadAjustada.n * k.impactoCalculado.n
                      * k.exposicion.d
               /\ k.riesgoInherente = RInt(in.threat.probabilidad * m)
               /\ (scenario /\ in.days = 45) => k.exposicion = RInt(40)
               /\ (scenario /\ in.days = 0) => k.exposicion = RInt(20)

\* The scenario at 45 days in one slot, and a calculation with a
\* vulnerability in the other.
C13_Witness ==
    \E p, q \in Procs :
        /\ Calculated(call[p])
        /\ call[p].g_in[1].asset.valorEconomico = 100000
        /\ call[p].g_in[1].threat.probabilidad = 8
        /\ call[p].g_in[1].vuln = <<>>
        /\ call[p].g_in[1].days = 45
        /\ call[p].calc[1].exposicion = RInt(40)
        /\ Calculated(call[q])
        /\ call[q].g_in[1].vuln # <<>>

\* C14: the valorRiesgo stored by createOrUpdateRisk equals
\* asset.valorEconomico x (probabilidadAjustada / 10) x (impactoCalculado /
\* 10) and is never negative.
C14_ValueAtRisk ==
    /\ \A i \in Ids(risks) : risks[i].valorRiesgo.n >= 0
    /\ \A p \in Procs :
          (IsDone(call[p], "createOrUpdateRisk") /\ call[p].outcome = "ok") =>
              LET c == call[p]
                  stored == risks[c.ret[1].id]
                  producto == RMul(c.calc[1].probabilidadAjustada,
                                   c.calc[1].impactoCalculado)
              IN /\ stored.calculos = c.calc[1]
                 /\ stored.valorRiesgo
                       = RMul(Rat(c.asset[1].valorEconomico, 100), producto)

\* A value at risk that is not a whole number was stored for a calculation
\* with a vulnerability.
C14_Witness ==
    \E i \in Ids(risks) :
          /\ risks[i].vulnerabilidad # NoVuln
          /\ risks[i].valorRiesgo.n > 0
          /\ risks[i].valorRiesgo.d > 1
          /\ IsDone(call["p1"], "createOrUpdateRisk")
          /\ call["p1"].outcome = "ok"
          /\ call["p1"].ret[1].id = i

\* createRisk has finished for a request that gave both probabilidad and
\* impacto, for a triple that had a stored document when the call started.
ExplicitOnStored(c) ==
    /\ IsDone(c, "createRisk")
    /\ c.prob # <<>> /\ c.imp # <<>>
    /\ c.g_had # <<>>

\* C15: createRisk with an explicit probability and impact for a triple
\* that already has a stored document is rejected as a duplicate: the
\* document is unchanged and no second one is stored for the triple.
C15_ExplicitDuplicateRejected ==
    \A p \in Procs :
        ExplicitOnStored(call[p]) =>
            /\ call[p].outcome = "DuplicateKey"
            /\ risks[call[p].g_had[1].id] = call[p].g_had[1].doc
            /\ Len(risks) = call[p].g_len

\* C16: calculateRisk has no side effects: whether it returns or fails, the
\* Asset, Threat, Vulnerability and Risk collections are the same before and
\* after the call.
C16_CalculateRiskReadsOnly ==
    [][\A p \in Procs :
          (call'[p] # call[p] /\ call'[p].op = "calculateRisk")
              => /\ assets' = assets
                 /\ threats' = threats
                 /\ vulns' = vulns
                 /\ risks' = risks]_vars

\* calculateRisk has returned a calculation while the Risk collection holds
\* a document.
C16_Witness ==
    \E p \in Procs : Calculated(call[p]) /\ risks # <<>>

\* The threats that carry the CVE id.
OfCve(id) ==
    {t \in DOMAIN threats :
        threats[t].cveData # <<>> /\ threats[t].cveData[1].cveId = id}

\* C17: after any sequence of processCVE calls at most one threat exists per
\* CVE id, and ingesting a CVE id that already has a threat overwrites that
\* threat's cveData and probabilidad and creates no new threat.
C17_OneThreatPerCve ==
    /\ \A id \in CveIds : Cardinality(OfCve(id)) <= 1
    /\ \A p \in Procs :
          (IsDone(call[p], "processCVE") /\ call[p].found # <<>>) =>
              LET c == call[p]
                  t == c.found[1].id
              IN /\ c.outcome = "ok"
                 /\ threats[t].cveData = c.cve
                 /\ threats[t].probabilidad
                      = calculateProbabilityFromCVSS(c.cve[1].cvssScore,
                                                     c.cve[1].severity)
                 /\ Cardinality(DOMAIN threats) = c.g_count

\* Some stored asset lists id in its dependencias.
Listed(id) == \E b \in DOMAIN assets : id \in assets[b].dependencias

C19_ReviewDateDerived ==
    \A s \in DOMAIN safeguards :
        (safeguards[s].estado = "Implementada"
            /\ safeguards[s].fechaImplementacion # <<>>)
        => safeguards[s].fechaRevision # <<>>

\* The five buckets of a returned matrix with the level each one is for.
Buckets(m) ==
    <<[nivel |-> "Critico", of |-> m.criticos],
      [nivel |-> "Alto", of |-> m.altos],
      [nivel |-> "Medio", of |-> m.medios],
      [nivel |-> "Bajo", of |-> m.bajos],
      [nivel |-> "Muy Bajo", of |-> m.muyBajos]>>

\* How many times document i is listed in a bucket.
Times(bucket, i) == Cardinality({k \in 1..Len(bucket) : bucket[k] = i})

\* C20: when getRiskMatrix returns, every active risk is listed once, in the
\* bucket of its nivelRiesgo and in no other, no inactive risk is listed, and
\* stats.totalRiesgos is the sum of the bucket sizes and the number of active
\* records.
C20_MatrixPartitionsActive ==
    [][\A p \in Procs :
         (call'[p] # call[p] /\ call'[p].op = "getRiskMatrix"
             /\ call'[p].outcome = "ok")
         => LET m == call'[p].matrix
                b == Buckets(m)
                active == {i \in 1..Len(risks') : risks'[i].vigente}
            IN /\ \A i \in active, k \in 1..5 :
                     Times(b[k].of, i) =
                         IF risks'[i].nivelRiesgo = b[k].nivel THEN 1 ELSE 0
               /\ \A i \in active :
                     \E k \in 1..5 : risks'[i].nivelRiesgo = b[k].nivel
               /\ \A k \in 1..5 :
                     \A j \in 1..Len(b[k].of) : b[k].of[j] \in active
               /\ m.totalRiesgos = Len(b[1].of) + Len(b[2].of) + Len(b[3].of)
                                     + Len(b[4].of) + Len(b[5].of)
               /\ m.totalRiesgos = Cardinality(active)]_vars

\* getRiskMatrix has returned the active risk, in one bucket, while a
\* soft-deleted one is stored.
C20_Witness ==
    \E p \in Procs :
        /\ IsDone(call[p], "getRiskMatrix")
        /\ call[p].matrix.totalRiesgos = 1
        /\ \E k \in 1..5 : Len(Buckets(call[p].matrix)[k].of) = 1
        /\ \E i \in 1..Len(risks) : ~risks[i].vigente

\* What C21 asks of the list top returned for limit over the collection
\* store: min(limit, active) active documents, each once, in non-increasing
\* order of valorRiesgo, every active document left out no greater than the
\* last one returned.
IsTopOf(store, top, limit) ==
    LET active == {i \in 1..Len(store) : store[i].vigente}
        count == IF limit <= Cardinality(active) THEN limit
                 ELSE Cardinality(active)
    IN /\ Len(top) = count
       /\ \A k \in 1..Len(top) : top[k] \in active
       /\ \A k, l \in 1..Len(top) : top[k] = top[l] => k = l
       /\ \A k \in 1..(Len(top) - 1) :
             RLeq(store[top[k + 1]].valorRiesgo, store[top[k]].valorRiesgo)
       /\ \A i \in active :
             (Len(top) > 0 /\ \A k \in 1..Len(top) : top[k] # i)
             => RLeq(store[i].valorRiesgo, store[top[Len(top)]].valorRiesgo)

\* C21, as stated: whatever the limit, getTopRisks(limit) returns
\* min(limit, active) active risks in non-increasing order of valorRiesgo,
\* the ones left out no greater than the smallest returned.
C21_TopRisks ==
    [][\A p \in Procs :
         (call'[p] # call[p] /\ call'[p].op = "getTopRisks"
             /\ call'[p].outcome = "ok")
         => IsTopOf(risks', call'[p].top, call'[p].arg)]_vars

\* C21, amended: the same for a limit of at least 1.
C21_TopRisksPositiveLimit ==
    [][\A p \in Procs :
         (call'[p] # call[p] /\ call'[p].op = "getTopRisks"
             /\ call'[p].outcome = "ok" /\ call'[p].arg >= 1)
         => IsTopOf(risks', call'[p].top, call'[p].arg)]_vars

\* getTopRisks(1) has returned one of two active risks of different
\* valorRiesgo.
C21_Witness ==
    \E p \in Procs :
        /\ IsDone(call[p], "getTopRisks")
        /\ call[p].arg = 1
        /\ Len(call[p].top) = 1
        /\ \E i \in 1..Len(risks) :
              /\ risks[i].vigente
              /\ i # call[p].top[1]
              /\ risks[i].valorRiesgo # risks[call[p].top[1]].valorRiesgo

\* C22: a createOrUpdateRisk that found its asset and its threat, their
\* stored fields within the schema ranges, succeeds and its record is
\* stored.
C22_UpsertSucceedsInRange ==
    \A p \in Procs :
        (IsDone(call[p], "createOrUpdateRisk") /\ call[p].outcome # "NotFound")
        => /\ call[p].outcome = "ok"
           /\ OfTriple(<<call[p].a, call[p].t, call[p].v>>) # {}

\* C23: no step of a running recalculateAllRisks changes a stored record
\* from vigente = false to vigente = true.
C23_BatchNeverRevives ==
    [][\A p \in Procs :
         (call[p].op = "recalculateAllRisks" /\ call'[p] # call[p])
         => \A i \in Ids(risks) : risks[i].vigente \/ ~risks'[i].vigente]_vars

\* C24: no step of a running recalculateAllRisks inserts a record or changes
\* the set of triples held by the Risk collection.
C24_BatchKeepsTriples ==
    [][\A p \in Procs :
         (call[p].op = "recalculateAllRisks" /\ call'[p] # call[p])
         => /\ Len(risks') = Len(risks)
            /\ {TripleOf(risks'[i]) : i \in Ids(risks')}
                  = {TripleOf(risks[i]) : i \in Ids(risks)}]_vars

\* C25: a createRisk given both probabilidad and impacto that has returned a
\* record stored it with exactly those values, valorRiesgo their product and
\* nivelRiesgo the level of the product.
C25_ManualValuesStored ==
    \A p \in Procs :
        LET c == call[p]
        IN (IsDone(c, "createRisk") /\ c.outcome = "ok"
               /\ c.prob # <<>> /\ c.imp # <<>>)
           => LET stored == risks[c.ret[1].id]
                  producto == RInt(c.prob[1] * c.imp[1])
              IN /\ stored.probabilidad = RInt(c.prob[1])
                 /\ stored.impacto = RInt(c.imp[1])
                 /\ stored.valorRiesgo = producto
                 /\ stored.nivelRiesgo = determineRiskLevel(producto)

\* C26: at most one synchronisation is executing at any time, and a
\* manualSync entered while one is executing is refused with 'Ya hay una
\* sincronización en curso'.
C26_SingleSync ==
    /\ [](Cardinality({p \in Procs : Syncing(call[p])}) <= 1)
    /\ [][\A p \in Procs :
            (Free(p) /\ call'[p] # call[p] /\ call'[p].op = "manualSync"
                /\ \E q \in Procs : Syncing(call[q]))
            => call'[p].outcome = "YaHaySincronizacion"]_vars

C28_SeverityGivesProbabilidad ==
    \A p \in Procs :
        IsDone(call[p], "processCVE") =>
            /\ call[p].outcome = "ok"
            /\ \E t \in OfCve(call[p].cve[1].cveId) :
                  LET severity == threats[t].cveData[1].severity
                  IN /\ threats[t].cveData = call[p].cve
                     /\ severity \in {"LOW", "MEDIUM", "HIGH", "CRITICAL"}
                     /\ threats[t].probabilidad =
                           CASE severity = "CRITICAL" -> 9
                             [] severity = "HIGH" -> 7
                             [] severity = "MEDIUM" -> 5
                             [] severity = "LOW" -> 3

\* C29: a GET of the risks routes answered from the cache gets what its
\* handler would answer from the Risk collection as the POST and DELETE
\* requests of the router have left it: no answer cached before a
\* successful write is served after it.
C29_NoStaleAnswer ==
    [][\A p \in Procs :
         (call'[p] # call[p] /\ call'[p].op = "GET" /\ call'[p].hit)
         => call'[p].ret = <<HandlerData(call'[p].req[1], risks')>>]_vars

\* A step in which the cache is looked up for the GET in slot p.
LooksUp(p) ==
    /\ call'[p] # call[p]
    /\ call'[p].op = "GET"
    /\ call[p].pc # "handler"

\* C30: a lookup returns an entry stored at time t with a TTL of s seconds
\* only at times no later than t + 1000 * s ms, and then returns the stored
\* value; a lookup that finds the entry later than that removes it from the
\* cache and returns null.
C30_NoEntryPastTtl ==
    [][\A p \in Procs :
         LooksUp(p) =>
            LET key == generateCacheKey(call'[p].req[1])
            IN /\ call'[p].hit =>
                    /\ key \in DOMAIN cache
                    /\ DateNow <= cache[key].timestamp
                                    + MsPerSecond * cache[key].ttl
                    /\ call'[p].ret = <<cache[key].data>>
               /\ (/\ key \in DOMAIN cache
                   /\ DateNow > cache[key].timestamp
                                   + MsPerSecond * cache[key].ttl)
                    => /\ ~call'[p].hit
                       /\ call'[p].ret = <<>>
                       /\ key \notin DOMAIN cache']_vars

\* A lookup has returned an entry at the last millisecond of its TTL.
C30_Witness ==
    \E p \in Procs :
        /\ call[p].op = "GET" /\ call[p].hit
        /\ call[p].g_entry # <<>>
        /\ call[p].g_at = call[p].g_entry[1].timestamp
                            + MsPerSecond * call[p].g_entry[1].ttl

\* A lookup has found an entry one millisecond past its TTL.
C30_ExpiredLookup ==
    \E p \in Procs :
        /\ call[p].op = "GET" /\ ~call[p].hit
        /\ call[p].g_entry # <<>>
        /\ call[p].g_at = call[p].g_entry[1].timestamp
                            + MsPerSecond * call[p].g_entry[1].ttl + 1

====
